---------------------------- MODULE Spec2Model ----------------------------
(***************************************************************************)
(* Competitor price resolution scripts of unfulfilled-orders-notification  *)
(* as state machines.  Every script is a separate program; the variable    *)
(* prog says which one a behaviour runs, and each specification below      *)
(* starts one or more of them.  Strings are Python strings, prices are     *)
(* Python floats kept as integer hundredths (cents).                       *)
(***************************************************************************)
EXTENDS Integers, Sequences, FiniteSets, TLC

VARIABLES
    prog,        \* the script this behaviour runs
    env,         \* the environment of api/price_watch.py: which variables are set
    \* competitor_price_via_serpapi.py: main() and try_queries()
    serp_pc,     \* position inside main()/try_queries()
    serp_rowi,   \* number of rows of the CSV already taken
    serp_row,    \* the CSV row being resolved
    serp_vi,     \* index into the MPN variants list of the running tier
    serp_seen,   \* try_queries' set `seen` of the running tier
    serp_trace,  \* external events so far for this row: queries and sleeps
    serp_last,   \* the response the search collaborator gave to the last query
    serp_ret,    \* (match_by, hit) as try_queries returned it
    serp_out,    \* main()'s list `out`: the result columns of the rows done
    serp_csv,    \* OUTPUT_CSV: <<>> until main() writes it, then <<rows>>
    \* competitor_price_scrape.py: best_attempt_for_domain()
    scr_pc,      \* position inside best_attempt_for_domain()
    scr_row,     \* the RowIn being resolved
    scr_domain,  \* the competitor domain of this call
    scr_queries, \* the list `queries` of (query, tag)
    scr_qi,      \* index of the next query of the for loop
    scr_trace,   \* external events so far: queries, fetches and sleeps
    scr_last,    \* what the collaborators did for the last query
    scr_ret,     \* the tuple best_attempt_for_domain returned
    \* api/price_watch.py: handler.do_GET()
    pw_pc,       \* position inside do_GET()
    pw_i,        \* number of sheet rows the loop has taken
    pw_cell_updates, \* the list cell_updates
    pw_rows_done,    \* per row taken: "skipped", "processed" or "raised"
    pw_last,     \* the row taken last, its search results and its two offers
    pw_written,  \* the batches given to worksheet.update_cells
    pw_response, \* the HTTP status codes sent
    \* competitor_price_via_serpapi_webscrape.py: search_and_validate()
    web_pc,      \* position inside search_and_validate()
    web_row,     \* the CSV row being resolved
    web_queries, \* the list `queries` of (qtype, q)
    web_qi,      \* index of the next query of the for loop
    web_trace,   \* external events so far: queries and sleeps
    web_last,    \* the answer to the last query, with the pages behind its results
    web_ret,     \* (match_by, url, price) as returned; "" is None
    \* shopping_offers_match.py: run() calling find_best_competitor_offer()
    so_pc,       \* position inside find_best_competitor_offer()
    so_row,      \* the CSV row as run() read it
    so_product_id, \* product_id; "" is None
    so_matched_by, \* matched_by
    so_trace,    \* external events so far: queries, the offers fetch and sleeps
    so_last,     \* the normalized offers fetched and the domain computed for each
    so_ret,      \* (match_source, best_price, best_url, matched_by) as returned
    so_out,      \* run()'s list rows_out: the new fields of the rows done
    \* api/price_monitor.py: handler.do_GET()
    mon_pc,      \* position inside do_GET()
    mon_fetch,   \* what fetch_all_products did: the catalog served, cursors sent, products
    mon_sheet_rows,  \* the list sheet_rows
    mon_updates,     \* the list shopify_updates
    mon_sheet,   \* the worksheet: contents before the run, how the read went, contents now
    mon_trace,   \* external effects so far, in order
    mon_response,    \* the HTTP responses started: status and whether the headers were ended
    \* api/unfulfilled.py: handler.do_GET()
    unf_pc,      \* position inside do_GET()
    unf_fetch,   \* the pages served, the cursors sent and how the paging loop ended
    unf_rows,    \* the list all_rows
    unf_sheet,   \* the worksheet contents
    unf_trace,   \* external effects so far, in order
    unf_response,    \* the HTTP status codes sent
    \* a function of one of the scripts called on its own
    fn_pc,       \* "ready", "picked" (arguments chosen) or "done" (it returned)
    fn_in,       \* its arguments
    fn_out       \* what it returned

vSerp == <<serp_pc, serp_rowi, serp_row, serp_vi, serp_seen, serp_trace, serp_last, serp_ret, serp_out, serp_csv>>

vScrape == <<scr_pc, scr_row, scr_domain, scr_queries, scr_qi, scr_trace, scr_last, scr_ret>>

vPw == <<pw_pc, pw_i, pw_cell_updates, pw_rows_done, pw_last, pw_written, pw_response>>

vWeb == <<web_pc, web_row, web_queries, web_qi, web_trace, web_last, web_ret>>

vOffers == <<so_pc, so_row, so_product_id, so_matched_by, so_trace, so_last, so_ret, so_out>>

vMon == <<mon_pc, mon_fetch, mon_sheet_rows, mon_updates, mon_sheet, mon_trace, mon_response>>

vUnf == <<unf_pc, unf_fetch, unf_rows, unf_sheet, unf_trace, unf_response>>

vFn == <<fn_pc, fn_in, fn_out>>

vars == <<prog, env, vSerp, vScrape, vPw, vWeb, vOffers, vMon, vUnf, vFn>>

\* the variables of the other programs, which an action of one program leaves alone
notSerp == <<vScrape, vPw, vWeb, vOffers, vMon, vUnf, vFn>>

notScrape == <<vSerp, vPw, vWeb, vOffers, vMon, vUnf, vFn>>

notPw == <<vSerp, vScrape, vWeb, vOffers, vMon, vUnf, vFn>>

notWeb == <<vSerp, vScrape, vPw, vOffers, vMon, vUnf, vFn>>

notOffers == <<vSerp, vScrape, vPw, vWeb, vMon, vUnf, vFn>>

notMon == <<vSerp, vScrape, vPw, vWeb, vOffers, vUnf, vFn>>

notUnf == <<vSerp, vScrape, vPw, vWeb, vOffers, vMon, vFn>>

notFn == <<vSerp, vScrape, vPw, vWeb, vOffers, vMon, vUnf>>

----------------------------------------------------------------------------
(* Python values and string primitives *)

LowerAlphabet == "abcdefghijklmnopqrstuvwxyz"

UpperAlphabet == "ABCDEFGHIJKLMNOPQRSTUVWXYZ"

Digits == "0123456789"

\* s[i] for a Python string, 1-based
Ch(s, i) == SubSeq(s, i, i)

\* `sub in s` for Python strings
Contains(sub, s) ==
    \E i \in 1..(Len(s) - Len(sub) + 1) : SubSeq(s, i, i + Len(sub) - 1) = sub

\* s.startswith(p)
StartsWith(s, p) == Len(p) <= Len(s) /\ SubSeq(s, 1, Len(p)) = p

\* s.endswith(p)
EndsWith(s, p) == Len(p) <= Len(s) /\ SubSeq(s, Len(s) - Len(p) + 1, Len(s)) = p

\* the characters of a string, as a set
CharsOf(s) == {Ch(s, i) : i \in 1..Len(s)}

LowerChars == CharsOf(LowerAlphabet)

UpperChars == CharsOf(UpperAlphabet)

DigitChars == CharsOf(Digits)

\* position of the one-character string c in alphabet, 0 when absent
PosIn(c, alphabet) ==
    LET at == {i \in 1..Len(alphabet) : Ch(alphabet, i) = c}
    IN  IF at = {} THEN 0 ELSE CHOOSE i \in at : \A j \in at : i <= j

LowerCh(c) == IF c \in UpperChars THEN Ch(LowerAlphabet, PosIn(c, UpperAlphabet)) ELSE c

UpperCh(c) == IF c \in LowerChars THEN Ch(UpperAlphabet, PosIn(c, LowerAlphabet)) ELSE c

RECURSIVE Lower(_)
\* s.lower()
Lower(s) == IF s = "" THEN "" ELSE LowerCh(Ch(s, 1)) \o Lower(SubSeq(s, 2, Len(s)))

RECURSIVE Upper(_)
\* s.upper()
Upper(s) == IF s = "" THEN "" ELSE UpperCh(Ch(s, 1)) \o Upper(SubSeq(s, 2, Len(s)))

RECURSIVE RemoveChars(_, _)
\* s with every character of the string `chars` deleted: s.replace(c, "") and re.sub("[...]", "", s)
RemoveChars(s, chars) ==
    IF s = "" THEN ""
    ELSE (IF Ch(s, 1) \in CharsOf(chars) THEN "" ELSE Ch(s, 1)) \o RemoveChars(SubSeq(s, 2, Len(s)), chars)

RECURSIVE LStrip(_)
LStrip(s) == IF s # "" /\ Ch(s, 1) = " " THEN LStrip(SubSeq(s, 2, Len(s))) ELSE s

RECURSIVE RStrip(_)
RStrip(s) == IF s # "" /\ Ch(s, Len(s)) = " " THEN RStrip(SubSeq(s, 1, Len(s) - 1)) ELSE s

\* s.strip()
Strip(s) == RStrip(LStrip(s))

IsDigit(c) == c \in DigitChars

\* a character that [a-z0-9] matches
IsLowerAlnum(c) == c \in LowerChars \/ IsDigit(c)

\* a character that \w matches
IsWordCh(c) == IsLowerAlnum(c) \/ c \in UpperChars \/ c = "_"

----------------------------------------------------------------------------
(* Loosely typed values of the JSON payloads and of Optional[float] results: *)
(* a string, a number (in cents) or None.                                    *)

PyStr(s) == [t |-> "str", s |-> s, n |-> 0]

PyNum(n) == [t |-> "num", s |-> "", n |-> n]

PyNone == [t |-> "none", s |-> "", n |-> 0]

IsNone(v) == v.t = "none"

\* Python truthiness of such a value
Truthy(v) == (v.t = "str" /\ v.s # "") \/ (v.t = "num" /\ v.n # 0)

\* a or b
PyOr(a, b) == IF Truthy(a) THEN a ELSE b

RECURSIVE AllDigits(_)
AllDigits(s) == s = "" \/ (IsDigit(Ch(s, 1)) /\ AllDigits(SubSeq(s, 2, Len(s))))

RECURSIVE DigitsVal(_)
\* the number a string of decimal digits denotes ("" gives 0)
DigitsVal(s) == IF s = "" THEN 0 ELSE DigitsVal(SubSeq(s, 1, Len(s) - 1)) * 10 + (PosIn(Ch(s, Len(s)), Digits) - 1)

\* the first two decimals of a fraction digit string, as cents
FracCents(fp) == DigitsVal(SubSeq(fp \o "00", 1, 2))

\* float(s) of a Python string, in cents; None stands for ValueError.  The
\* decimal forms [+-]digits[.digits] are accepted (the inputs carry at most two
\* decimals and no exponent, inf or nan forms).
ParseFloat(s) ==
    LET t == Strip(s)
        signed == t # "" /\ Ch(t, 1) \in {"-", "+"}
        body == IF signed THEN SubSeq(t, 2, Len(t)) ELSE t
        dot == PosIn(".", body)
        ip == IF dot = 0 THEN body ELSE SubSeq(body, 1, dot - 1)
        fp == IF dot = 0 THEN "" ELSE SubSeq(body, dot + 1, Len(body))
        ok == AllDigits(ip) /\ AllDigits(fp) /\ (ip # "" \/ fp # "")
        mag == DigitsVal(ip) * 100 + FracCents(fp)
    IN  IF ~ok THEN PyNone
        ELSE PyNum(IF signed /\ Ch(t, 1) = "-" THEN 0 - mag ELSE mag)

\* str(v) for a loosely typed value; a number prints in its decimal form
RECURSIVE NatStr(_)
NatStr(n) == IF n < 10 THEN Ch(Digits, n + 1) ELSE NatStr(n \div 10) \o Ch(Digits, (n % 10) + 1)

\* f"{x:.2f}" of a float held in cents
Fmt2(c) ==
    LET a == IF c < 0 THEN 0 - c ELSE c
    IN  (IF c < 0 THEN "-" ELSE "") \o NatStr(a \div 100) \o "." \o Ch(Digits, ((a \div 10) % 10) + 1) \o Ch(Digits, (a % 10) + 1)

PyStrOf(v) == IF v.t = "str" THEN v.s ELSE IF v.t = "num" THEN Fmt2(v.n) ELSE "None"

\* norm_price(p): float(str(p).replace("$","").replace(",","").strip()), None on failure
norm_price(p) == ParseFloat(Strip(RemoveChars(PyStrOf(p), "$,")))

\* normalize_mpn with the dots left in
normalize_mpn_keep_dots(m) == IF m = "" THEN "" ELSE Upper(RemoveChars(m, " -_/"))

\* normalize_mpn(m)
normalize_mpn(m) == IF m = "" THEN "" ELSE Upper(RemoveChars(m, " .-_/"))

\* urlparse(url).netloc: what stands between "//" and the next "/", "?" or "#";
\* "" for a url without "//" after its scheme
RECURSIVE UpToDelim(_)
UpToDelim(s) == IF s = "" \/ Ch(s, 1) \in {"/", "?", "#"} THEN "" ELSE Ch(s, 1) \o UpToDelim(SubSeq(s, 2, Len(s)))

RECURSIVE AfterScheme(_, _)
\* the url behind its "scheme:" prefix; the whole url when it has none
AfterScheme(url, i) ==
    IF i > Len(url) THEN url
    ELSE IF Ch(url, i) = ":" THEN (IF i > 1 THEN SubSeq(url, i + 1, Len(url)) ELSE url)
    ELSE IF IsWordCh(Ch(url, i)) /\ Ch(url, i) # "_" THEN AfterScheme(url, i + 1)
    ELSE url

Netloc(url) ==
    LET rest == AfterScheme(url, 1)
    IN  IF StartsWith(rest, "//") THEN UpToDelim(SubSeq(rest, 3, Len(rest))) ELSE ""

RECURSIVE Tokens(_, _)
\* re.findall(r"[a-z0-9]+", s): the maximal runs of lower-case letters and digits;
\* cur is the run being read
Tokens(s, cur) ==
    IF s = "" THEN (IF cur = "" THEN <<>> ELSE <<cur>>)
    ELSE IF IsLowerAlnum(Ch(s, 1)) THEN Tokens(SubSeq(s, 2, Len(s)), cur \o Ch(s, 1))
    ELSE (IF cur = "" THEN <<>> ELSE <<cur>>) \o Tokens(SubSeq(s, 2, Len(s)), "")

\* seq[:n]
Take(seq, n) == SubSeq(seq, 1, IF Len(seq) < n THEN Len(seq) ELSE n)

Range(seq) == {seq[i] : i \in 1..Len(seq)}

RECURSIVE CollapseSpaces(_)
\* re.sub(r"\s+", " ", s)
CollapseSpaces(s) ==
    IF Len(s) < 2 THEN s
    ELSE IF Ch(s, 1) = " " /\ Ch(s, 2) = " " THEN CollapseSpaces(SubSeq(s, 2, Len(s)))
    ELSE Ch(s, 1) \o CollapseSpaces(SubSeq(s, 2, Len(s)))

----------------------------------------------------------------------------
(* competitor_price_via_serpapi.py *)

MaxRows == 2

MaxHits == 2

serp_ALLOWED_DOMAINS ==
    {"backcountry.com", "www.backcountry.com",
     "sportsbasement.com", "www.sportsbasement.com", "shop.sportsbasement.com"}

BIG_TICKET_THRESHOLD == 300

\* MIN_FRACTION_OF_MY_PRICE = 0.50, in hundredths
MIN_FRACTION_OF_MY_PRICE == 50

site_filter_clause == "site:backcountry.com OR site:sportsbasement.com OR site:shop.sportsbasement.com"

\* domain_of(url).  The module imports only quote_plus from urllib.parse, so the
\* name urlparse is unbound: the call raises NameError inside the try, and the
\* function's `except Exception` returns "" for every url.
serp_domain_of(url) == ""

\* one item of the search payload -> one hit
extract_hit(it) ==
    [link   |-> IF it.link # "" THEN it.link ELSE it.product_link,
     title  |-> it.title,
     seller |-> Strip(it.source),
     price  |-> IF IsNone(it.extracted_price) /\ it.price.t = "str"
                THEN norm_price(it.price) ELSE it.extracted_price]

extract_hits(items) == [i \in 1..Len(items) |-> extract_hit(items[i])]

serp_reasonable_price(row, price) ==
    LET myp == norm_price(PyStr(row.My_Price))
    IN  IF IsNone(price) THEN FALSE
        ELSE IF IsNone(myp) \/ myp.n < BIG_TICKET_THRESHOLD * 100 THEN TRUE
        ELSE price.n * 100 >= myp.n * MIN_FRACTION_OF_MY_PRICE

\* the words title_matches and title_ok drop from the product name
TitleStoplist ==
    {"rear", "front", "tubeless", "disc", "bike", "bikes", "wheel", "wheels", "tire", "tires",
     "black", "white", "mens", "women", "womens", "the", "and", "with"}

\* the lower-cased forms of the MPN that title_matches looks for in a title
MpnTitleVariants(mpn) ==
    {Lower(mpn), Lower(RemoveChars(mpn, " ")), Lower(RemoveChars(mpn, "-")), Lower(normalize_mpn(mpn))}

\* the first three product-name tokens that are not stop words
NameKeywords(pname) == Take(SelectSeq(Tokens(pname, ""), LAMBDA x : x \notin TitleStoplist), 3)

\* title_matches without the keyword fallback
title_matches_no_keywords(row, title) ==
    LET brand == Lower(Strip(row.Brand))
        mpn == Strip(row.MPN)
        t == Lower(title)
        has_brand == brand # "" /\ Contains(brand, t)
        has_mpn == mpn # "" /\ \E v \in MpnTitleVariants(mpn) : v # "" /\ Contains(v, t)
    IN  (has_brand /\ has_mpn) \/ (has_mpn /\ brand = "")

title_matches(row, title) ==
    LET brand == Lower(Strip(row.Brand))
        mpn == Strip(row.MPN)
        pname == Lower(Strip(row.Product_Name))
        t == Lower(title)
        has_brand == brand # "" /\ Contains(brand, t)
        has_mpn == mpn # "" /\ \E v \in MpnTitleVariants(mpn) : v # "" /\ Contains(v, t)
        has_kw == pname # "" /\ \E x \in Range(NameKeywords(pname)) : Contains(x, t)
    IN  (has_brand /\ (has_mpn \/ has_kw)) \/ (has_mpn /\ brand = "")

host_allowed(link) == serp_domain_of(link) \in serp_ALLOWED_DOMAINS

\* the candidates loop of best_valid_hit
serp_candidates(row, hits) ==
    SelectSeq(hits, LAMBDA h : host_allowed(h.link) /\ title_matches(row, h.title)
                                /\ serp_reasonable_price(row, h.price))

RECURSIVE LowestPriced(_, _)
\* the `best, best_price` scan: best is <<>> (None) or <<hit>>
LowestPriced(cands, best) ==
    IF cands = <<>> THEN best
    ELSE LET h == Head(cands)
         IN  LowestPriced(Tail(cands),
                          IF IsNone(h.price) THEN best
                          ELSE IF best = <<>> \/ h.price.n < best[1].price.n THEN <<h>>
                          ELSE best)

best_valid_hit(row, hits) == LowestPriced(serp_candidates(row, hits), <<>>)

\* the words the Brand+Name tier removes from the product name
KwFiller(w) ==
    LET l == Lower(w)
    IN  \/ l \in {"black", "white", "tubeless", "disc", "rear", "front", "700c", "womens", "women",
                  "mens", "bike", "bicycle", "wheel", "wheels", "tire", "tires"}
        \/ (StartsWith(l, "700x") /\ Len(l) >= 5 /\ IsDigit(Ch(l, 5)))

RECURSIVE StripFiller(_, _)
\* re.sub(r"\b(black|white|...)\b", " ", s, flags=re.I); cur is the word being read
StripFiller(s, cur) ==
    LET flush == IF cur = "" THEN "" ELSE IF KwFiller(cur) THEN " " ELSE cur
    IN  IF s = "" THEN flush
        ELSE IF IsWordCh(Ch(s, 1)) THEN StripFiller(SubSeq(s, 2, Len(s)), cur \o Ch(s, 1))
        ELSE flush \o Ch(s, 1) \o StripFiller(SubSeq(s, 2, Len(s)), "")

\* kw of the Brand+Name tier
CleanName(pname) == Strip(CollapseSpaces(StripFiller(pname, "")))

\* variants = [mpn, mpn.replace(" ",""), mpn.replace("-",""), mpn_norm]
MpnQueryVariants(mpn) == <<mpn, RemoveChars(mpn, " "), RemoveChars(mpn, "-"), normalize_mpn(mpn)>>

\* q = f"\"{text}\" ({site_filter_clause()})"
serp_query(text) == "\"" \o text \o "\" (" \o site_filter_clause \o ")"

\* the rows of INPUT_CSV the model draws from
SerpRows ==
    [GTIN : {"", "0123"}, MPN : {"", "a1", "a-1 b"}, Brand : {"", "gb"},
     Product_Name : {"", "edge rear", "rear"}, My_Price : {"1300"}]

NoRow == [GTIN |-> "", MPN |-> "", Brand |-> "", Product_Name |-> "", My_Price |-> ""]

\* the shopping results the search collaborator may return
SerpItems ==
    {[link |-> "https://www.backcountry.com/p/edge", product_link |-> "", title |-> "GB Edge A1B computer",
      source |-> "Backcountry", extracted_price |-> PyNum(70000), price |-> PyStr("$700.00")],
     [link |-> "", product_link |-> "https://shop.sportsbasement.com/products/edge", title |-> "GB Edge A1B",
      source |-> "Sports Basement ", extracted_price |-> PyNone, price |-> PyStr("$1,250.00")]}

RECURSIVE SeqsUpTo(_, _)
\* the sequences over S of length at most n
SeqsUpTo(S, n) ==
    IF n = 0 THEN {<<>>}
    ELSE LET shorter == SeqsUpTo(S, n - 1)
         IN  shorter \cup {Append(q, x) : q \in shorter, x \in S}

\* what serpapi(q) can do: raise (a non-200 answer, a timeout) or return a payload
SerpResponses ==
    {[raised |-> TRUE, items |-> <<>>]} \cup
    {[raised |-> FALSE, items |-> l] : l \in SeqsUpTo(SerpItems, MaxHits)}

NoResponse == [raised |-> FALSE, items |-> <<>>]

NoMatchRet == [match_by |-> "NO_MATCH", hit |-> <<>>]

SerpInit ==
    /\ serp_pc = "main"
    /\ serp_rowi = 0
    /\ serp_row = NoRow
    /\ serp_vi = 1
    /\ serp_seen = {}
    /\ serp_trace = <<>>
    /\ serp_last = NoResponse
    /\ serp_ret = NoMatchRet
    /\ serp_out = <<>>
    /\ serp_csv = <<>>

\* main(): `for i, row in enumerate(rows, 1)` takes the next row and calls try_queries
SerpStartRow ==
    /\ prog = "serp" /\ serp_pc = "main" /\ serp_rowi < MaxRows
    /\ \E row \in SerpRows : serp_row' = row
    /\ serp_rowi' = serp_rowi + 1
    /\ serp_pc' = "gtin"
    /\ serp_vi' = 1 /\ serp_seen' = {}
    /\ serp_last' = NoResponse /\ serp_ret' = NoMatchRet
    /\ UNCHANGED <<prog, env, serp_trace, serp_out, serp_csv>>
    /\ UNCHANGED notSerp

\* `hit = best_valid_hit(row, extract_hits(serpapi(q))); if hit: return (tier, hit)`:
\* the query goes out (SERPAPI_KEY is a literal of the script, never empty), the
\* collaborator answers resp; an exception leaves try_queries, a hit returns,
\* otherwise control goes on to pc `onward`
SerpSend(tier, q, resp, onward) ==
    LET hit == best_valid_hit(serp_row, extract_hits(resp.items))
    IN  /\ serp_trace' = Append(serp_trace, [ev |-> "query", tier |-> tier, q |-> q])
        /\ serp_last' = resp
        /\ IF resp.raised THEN serp_pc' = "raised" /\ UNCHANGED serp_ret
           ELSE IF hit # <<>> THEN serp_pc' = "returned" /\ serp_ret' = [match_by |-> tier, hit |-> hit]
           ELSE serp_pc' = onward /\ UNCHANGED serp_ret

\* try_queries 1) GTIN
SerpTierGTIN ==
    /\ prog = "serp" /\ serp_pc = "gtin"
    /\ LET gtin == Strip(serp_row.GTIN)
       IN  IF gtin # ""
           THEN \E resp \in SerpResponses : SerpSend("GTIN", serp_query(gtin), resp, "brand_mpn")
           ELSE serp_pc' = "brand_mpn" /\ UNCHANGED <<serp_trace, serp_last, serp_ret>>
    /\ UNCHANGED <<prog, env, serp_rowi, serp_row, serp_vi, serp_seen, serp_out, serp_csv>>
    /\ UNCHANGED notSerp

\* one pass of a `for v in variants` loop: tier `tier` builds its query from the
\* variant alone or with the brand in front of it, and hands over to pc `onward`
\* when the loop (or its guard) is done
SerpVariantStep(tier, applies, withBrand, here, onward) ==
    LET mpn == Strip(serp_row.MPN)
        brand == Strip(serp_row.Brand)
        mk(v) == IF withBrand THEN serp_query(brand \o " " \o v) ELSE serp_query(v)
        variants == MpnQueryVariants(mpn)
        leave == /\ serp_pc' = onward /\ serp_vi' = 1 /\ serp_seen' = {}
                 /\ UNCHANGED <<serp_trace, serp_last, serp_ret>>
    IN  IF ~applies \/ serp_vi > Len(variants) THEN leave
        ELSE LET v == Strip(variants[serp_vi])
             IN  IF v = "" \/ v \in serp_seen
                 THEN /\ serp_vi' = serp_vi + 1
                      /\ UNCHANGED <<serp_pc, serp_seen, serp_trace, serp_last, serp_ret>>
                 ELSE /\ serp_seen' = serp_seen \cup {v}
                      /\ serp_vi' = serp_vi + 1
                      /\ \E resp \in SerpResponses : SerpSend(tier, mk(v), resp, here)

\* try_queries 2) Brand + MPN
SerpTierBrandMPN ==
    /\ prog = "serp" /\ serp_pc = "brand_mpn"
    /\ SerpVariantStep("Brand+MPN", Strip(serp_row.Brand) # "" /\ Strip(serp_row.MPN) # "",
                       TRUE, "brand_mpn", "mpn")
    /\ UNCHANGED <<prog, env, serp_rowi, serp_row, serp_out, serp_csv>>
    /\ UNCHANGED notSerp

\* try_queries 3) MPN only
SerpTierMPN ==
    /\ prog = "serp" /\ serp_pc = "mpn"
    /\ SerpVariantStep("MPN", Strip(serp_row.MPN) # "", FALSE, "mpn", "brand_name")
    /\ UNCHANGED <<prog, env, serp_rowi, serp_row, serp_out, serp_csv>>
    /\ UNCHANGED notSerp

\* try_queries 4) Brand + cleaned Product_Name, then `return ("NO_MATCH", None)`
SerpTierBrandName ==
    /\ prog = "serp" /\ serp_pc = "brand_name"
    /\ LET brand == Strip(serp_row.Brand)
           pname == Strip(serp_row.Product_Name)
           kw == CleanName(pname)
       IN  IF brand # "" /\ pname # "" /\ kw # ""
           THEN \E resp \in SerpResponses :
                    SerpSend("Brand+Name", serp_query(brand \o " " \o kw), resp, "returned")
           ELSE serp_pc' = "returned" /\ UNCHANGED <<serp_trace, serp_last, serp_ret>>
    /\ UNCHANGED <<prog, env, serp_rowi, serp_row, serp_vi, serp_seen, serp_out, serp_csv>>
    /\ UNCHANGED notSerp

\* main(): the rest of the loop body, after try_queries returned or raised into
\* `except Exception`: the result columns, out.append(r), time.sleep
SerpFinishRow ==
    /\ prog = "serp" /\ serp_pc \in {"returned", "raised"}
    /\ LET my_price == norm_price(PyStr(serp_row.My_Price))
           matched == serp_pc = "returned" /\ serp_ret.hit # <<>>
           hit == serp_ret.hit[1]
           r == IF serp_pc = "raised"
                THEN [Match_Source |-> "", Match_URL |-> "", Match_Price |-> "", Match_By |-> "NO_MATCH",
                      Price_Diff |-> "", Status |-> "ERROR"]
                ELSE IF matched
                THEN [Match_Source |-> hit.seller, Match_URL |-> hit.link,
                      Match_Price |-> Fmt2(hit.price.n), Match_By |-> serp_ret.match_by,
                      Price_Diff |-> IF IsNone(my_price) THEN "" ELSE Fmt2(my_price.n - hit.price.n),
                      Status |-> "MATCH"]
                ELSE [Match_Source |-> "", Match_URL |-> "", Match_Price |-> "", Match_By |-> serp_ret.match_by,
                      Price_Diff |-> "", Status |-> "NO_MATCH"]
       IN  serp_out' = Append(serp_out, r)
    \* the row's locals are dead from here on; the trace keeps the events since the sleep
    /\ serp_trace' = <<[ev |-> "sleep", tier |-> "", q |-> ""]>>
    /\ serp_pc' = "main"
    /\ serp_row' = NoRow /\ serp_vi' = 1 /\ serp_seen' = {}
    /\ serp_last' = NoResponse /\ serp_ret' = NoMatchRet
    /\ UNCHANGED <<prog, env, serp_rowi, serp_csv>>
    /\ UNCHANGED notSerp

\* main(): the rows are exhausted; OUTPUT_CSV is written
SerpWriteCsv ==
    /\ prog = "serp" /\ serp_pc = "main"
    /\ serp_csv' = <<serp_out>>
    /\ serp_pc' = "done"
    /\ UNCHANGED <<prog, env, serp_rowi, serp_row, serp_vi, serp_seen, serp_trace, serp_last, serp_ret, serp_out>>
    /\ UNCHANGED notSerp

SerpNext ==
    \/ SerpStartRow
    \/ SerpTierGTIN
    \/ SerpTierBrandMPN
    \/ SerpTierMPN
    \/ SerpTierBrandName
    \/ SerpFinishRow
    \/ SerpWriteCsv

----------------------------------------------------------------------------
(* competitor_price_scrape.py: best_attempt_for_domain *)

scr_COMPETITOR_DOMAINS == <<"www.backcountry.com", "www.excelsports.com", "mikesbikes.com", "www.performancebike.com">>

\* the RowIn values process() may build
ScrapeRows ==
    [Product_Name : {"", "edge"}, GTIN : {"", "0123"}, MPN : {"", "a1"}, Brand : {"", "gb"},
     My_Price : {PyNum(130000)}]

NoRowIn == [Product_Name |-> "", GTIN |-> "", MPN |-> "", Brand |-> "", My_Price |-> PyNone]

\* what search, fetch and extraction can do for one query: the search raises,
\* no result of the domain, the fetch raises or answers >= 400 or empty, the
\* extraction raises, the page carries no price, or a price is found
ScrapeOutcomes ==
    {[kind |-> k, price |-> PyNone] :
        k \in {"search_raises", "no_url", "fetch_raises", "bad_fetch", "extract_raises", "no_price"}}
    \cup {[kind |-> "price", price |-> PyNum(54999)]}

NoOutcome == [kind |-> "none", price |-> PyNone]

\* f'"{text}" site:{domain}'
scr_query(text, domain) == "\"" \o text \o "\" site:" \o domain

\* scr_build_queries with the Brand+MPN query appended before the MPN query
scr_build_queries_brand_first(row, domain) ==
    (IF row.GTIN # "" THEN <<[q |-> scr_query(row.GTIN, domain), tag |-> "gtin"]>> ELSE <<>>)
    \o (IF row.MPN # ""
        THEN (IF row.Brand # ""
              THEN <<[q |-> scr_query(row.Brand \o " " \o row.MPN, domain), tag |-> "brand+mpn"]>>
              ELSE <<>>)
             \o <<[q |-> scr_query(row.MPN, domain), tag |-> "mpn"]>>
        ELSE <<>>)
    \o (IF row.Product_Name # ""
        THEN (IF row.Brand # ""
              THEN <<[q |-> scr_query(row.Brand \o " " \o row.Product_Name, domain), tag |-> "brand+name"]>>
              ELSE <<>>)
             \o <<[q |-> scr_query(row.Product_Name, domain), tag |-> "name"]>>
        ELSE <<>>)

\* the list `queries` of best_attempt_for_domain
scr_build_queries(row, domain) ==
    (IF row.GTIN # "" THEN <<[q |-> scr_query(row.GTIN, domain), tag |-> "gtin"]>> ELSE <<>>)
    \o (IF row.MPN # ""
        THEN <<[q |-> scr_query(row.MPN, domain), tag |-> "mpn"]>>
             \o (IF row.Brand # ""
                 THEN <<[q |-> scr_query(row.Brand \o " " \o row.MPN, domain), tag |-> "brand+mpn"]>>
                 ELSE <<>>)
        ELSE <<>>)
    \o (IF row.Product_Name # ""
        THEN (IF row.Brand # ""
              THEN <<[q |-> scr_query(row.Brand \o " " \o row.Product_Name, domain), tag |-> "brand+name"]>>
              ELSE <<>>)
             \o <<[q |-> scr_query(row.Product_Name, domain), tag |-> "name"]>>
        ELSE <<>>)

NoScrapeRet == [domain |-> "", price |-> PyNone, url |-> "", matched_by |-> ""]

ScrapeInit ==
    /\ scr_pc = "call"
    /\ scr_row = NoRowIn
    /\ scr_domain = ""
    /\ scr_queries = <<>>
    /\ scr_qi = 1
    /\ scr_trace = <<>>
    /\ scr_last = NoOutcome
    /\ scr_ret = NoScrapeRet

\* process() calls best_attempt_for_domain(row, dom, idx), which builds `queries`
ScrapeCall ==
    /\ prog = "scrape" /\ scr_pc = "call"
    /\ \E row \in ScrapeRows, d \in Range(scr_COMPETITOR_DOMAINS) :
          /\ scr_row' = row
          /\ scr_domain' = d
          /\ scr_queries' = scr_build_queries(row, d)
    /\ scr_pc' = "loop"
    /\ UNCHANGED <<prog, env, scr_qi, scr_trace, scr_last, scr_ret>>
    /\ UNCHANGED notScrape

\* one pass of `for q, tag in queries`: search, pick the url, fetch, extract;
\* a price returns, anything else (an exception included) sleeps and goes on
ScrapeQuery ==
    /\ prog = "scrape" /\ scr_pc = "loop" /\ scr_qi <= Len(scr_queries)
    /\ \E o \in ScrapeOutcomes :
          LET cur == scr_queries[scr_qi]
              url == "https://" \o scr_domain \o "/p/1"
              sent == <<[ev |-> "query", tag |-> cur.tag, q |-> cur.q]>>
              fetched == IF o.kind \in {"search_raises", "no_url"} THEN <<>>
                         ELSE <<[ev |-> "fetch", tag |-> cur.tag, q |-> url]>>
              slept == IF o.kind = "price" THEN <<>> ELSE <<[ev |-> "sleep", tag |-> "", q |-> ""]>>
          IN  /\ scr_trace' = scr_trace \o sent \o fetched \o slept
              /\ scr_last' = o
              /\ IF o.kind = "price"
                 THEN /\ scr_ret' = [domain |-> scr_domain, price |-> o.price, url |-> url, matched_by |-> cur.tag]
                      /\ scr_pc' = "done"
                      /\ UNCHANGED scr_qi
                 ELSE /\ scr_qi' = scr_qi + 1
                      /\ UNCHANGED <<scr_pc, scr_ret>>
    /\ UNCHANGED <<prog, env, scr_row, scr_domain, scr_queries>>
    /\ UNCHANGED notScrape

\* the loop is over: `return domain, None, "-", "NO_MATCH"`
ScrapeExhausted ==
    /\ prog = "scrape" /\ scr_pc = "loop" /\ scr_qi > Len(scr_queries)
    /\ scr_ret' = [domain |-> scr_domain, price |-> PyNone, url |-> "-", matched_by |-> "NO_MATCH"]
    /\ scr_pc' = "done"
    /\ UNCHANGED <<prog, env, scr_row, scr_domain, scr_queries, scr_qi, scr_trace, scr_last>>
    /\ UNCHANGED notScrape

ScrapeNext ==
    \/ ScrapeCall
    \/ ScrapeQuery
    \/ ScrapeExhausted

----------------------------------------------------------------------------
(* api/price_watch.py: find_offer and handler.do_GET *)

MaxPwRows == 2
MaxPwOffers == 2

MY_STORE_NAME == "R&A Cycles"

\* the sheet rows get_all_values() may hold (every cell is a string)
PwRows ==
    [Product_Name : {"Edge"}, GTIN : {"", "0123"}, MPN : {"A1"}, Brand : {"GB"},
     My_Price : {"1,300.00"}, CompetitorA_Name : {"", "Backcountry"}]

NoPwRow == [Product_Name |-> "", GTIN |-> "", MPN |-> "", Brand |-> "", My_Price |-> "", CompetitorA_Name |-> ""]

\* offers of a search answer; price is the JSON value of "price" (None: no such key)
PwItems ==
    { [source |-> "Backcountry.com", title |-> "GB Edge A1 computer", price |-> PyStr("$500.00")],
      [source |-> "Jenson USA", title |-> "gb edge a1", price |-> PyStr("$420.00")],
      [source |-> "R&A Cycles", title |-> "GB Edge A1", price |-> PyStr("$400.00")],
      [source |-> "Excel Sports", title |-> "GB Edge A1 bundle", price |-> PyNum(45000)],
      [source |-> "Jenson USA", title |-> "GB Edge A1 mount", price |-> PyStr("Call")],
      [source |-> "Mike's Bikes", title |-> "GB Edge 840", price |-> PyNone] }

\* what search_google_shopping does: it raises, or returns the offers
PwSearches ==
    {[raised |-> TRUE, offers |-> <<>>]}
    \cup {[raised |-> FALSE, offers |-> os] : os \in SeqsUpTo(PwItems, MaxPwOffers)}

NoPwOffer == [raised |-> FALSE, offer |-> <<>>]

RECURSIVE find_offer_scan(_, _, _, _, _, _, _)
\* the `for item in results` loop of find_offer from item i on, with the running
\* best_offer (<<>> is None) and lowest_price (-1 is float('inf'))
find_offer_scan(results, i, store_name, brand_keyword, mpn_keyword, best_offer, lowest_price) ==
    LET is_wildcard == IsNone(store_name)
    IN  IF i > Len(results)
        THEN [raised |-> FALSE, offer |-> IF is_wildcard THEN best_offer ELSE <<>>]
        ELSE
          LET item == results[i]
              source_str == item.source
              title_str == item.title
              title_lower == Lower(title_str)
              store_match == IF is_wildcard
                             THEN ~Contains(Lower(MY_STORE_NAME), Lower(source_str))
                             ELSE Contains(Lower(store_name.s), Lower(source_str))
              brand_match == Contains(brand_keyword, title_lower)
              mpn_match == Contains(mpn_keyword, title_lower)
              price_str == IF IsNone(item.price) THEN PyStr("0") ELSE item.price
              price_cleaned == RemoveChars(price_str.s, "$,")
              price_float == ParseFloat(price_cleaned)
              found == [title |-> title_str, price |-> price_cleaned, source |-> source_str]
              onward(b, l) == find_offer_scan(results, i + 1, store_name, brand_keyword, mpn_keyword, b, l)
          IN  IF ~(store_match /\ brand_match /\ mpn_match) THEN onward(best_offer, lowest_price)
              \* price_str.replace on a value that is no string: AttributeError
              ELSE IF price_str.t # "str" THEN [raised |-> TRUE, offer |-> <<>>]
              \* except ValueError: continue
              ELSE IF IsNone(price_float) THEN onward(best_offer, lowest_price)
              ELSE IF is_wildcard
                   THEN IF lowest_price = -1 \/ price_float.n < lowest_price
                        THEN onward(<<found>>, price_float.n)
                        ELSE onward(best_offer, lowest_price)
                   ELSE [raised |-> FALSE, offer |-> <<found>>]

\* find_offer(results, store_name, brand, mpn); store_name None is the wildcard
find_offer(results, store_name, brand, mpn) ==
    IF brand = "" \/ mpn = "" THEN NoPwOffer
    ELSE find_offer_scan(results, 1, store_name, Lower(brand), Lower(mpn), <<>>, -1)

\* do_GET: filtered_results
filtered_results(shopping_results, compA_name) ==
    SelectSeq(shopping_results, LAMBDA item : ~Contains(Lower(compA_name), Lower(item.source)))

\* do_GET: the status cell, from the two offers and My_Price
pw_status(offer_A, best_market_offer, my_price) ==
    LET price_A == IF offer_A = <<>> THEN PyNone ELSE ParseFloat(offer_A[1].price)
        price_B == IF best_market_offer = <<>> THEN PyNone ELSE ParseFloat(best_market_offer[1].price)
        my_price_float == ParseFloat(RemoveChars(my_price, ","))
        a_low == ~IsNone(price_A) /\ price_A.n < my_price_float.n
        b_low == ~IsNone(price_B) /\ price_B.n < my_price_float.n
    IN  IF IsNone(my_price_float) THEN "ERROR - Check My_Price"
        ELSE IF a_low /\ b_low THEN "ALERT - Both Low"
        ELSE IF a_low THEN "ALERT - A Low"
        ELSE IF b_low THEN "ALERT - Market Low"
        ELSE IF ~IsNone(price_A) \/ ~IsNone(price_B) THEN "Match"
        ELSE "Not Found"

\* gspread.Cell(sheet_row_index, column, value)
PwCell(r, c, v) == [row |-> r, col |-> c, value |-> v]

\* the cells of one processed row with writes for the offers found only
pw_row_cells_found_only(r, offer_A, best_market_offer, my_price) ==
    (IF offer_A # <<>>
     THEN <<PwCell(r, "CompetitorA_Title", offer_A[1].title), PwCell(r, "CompetitorA_Price", offer_A[1].price)>>
     ELSE <<>>)
    \o (IF best_market_offer # <<>>
        THEN <<PwCell(r, "Best_Offer_Source", best_market_offer[1].source),
               PwCell(r, "Best_Offer_Title", best_market_offer[1].title),
               PwCell(r, "Best_Offer_Price", best_market_offer[1].price)>>
        ELSE <<>>)
    \o <<PwCell(r, "Status", pw_status(offer_A, best_market_offer, my_price)),
         PwCell(r, "Last_Checked", "now")>>

\* do_GET: the cells one processed row appends to cell_updates
pw_row_cells(r, offer_A, best_market_offer, my_price) ==
    (IF offer_A # <<>>
     THEN <<PwCell(r, "CompetitorA_Title", offer_A[1].title), PwCell(r, "CompetitorA_Price", offer_A[1].price)>>
     ELSE <<PwCell(r, "CompetitorA_Title", ""), PwCell(r, "CompetitorA_Price", "")>>)
    \o (IF best_market_offer # <<>>
        THEN <<PwCell(r, "Best_Offer_Source", best_market_offer[1].source),
               PwCell(r, "Best_Offer_Title", best_market_offer[1].title),
               PwCell(r, "Best_Offer_Price", best_market_offer[1].price)>>
        ELSE <<PwCell(r, "Best_Offer_Source", ""), PwCell(r, "Best_Offer_Title", ""),
               PwCell(r, "Best_Offer_Price", "")>>)
    \o <<PwCell(r, "Status", pw_status(offer_A, best_market_offer, my_price)),
         PwCell(r, "Last_Checked", "now")>>

NoPwLast == [row |-> NoPwRow, results |-> <<>>, offer_A |-> <<>>, best |-> <<>>, outcome |-> "none"]

PwInit ==
    /\ pw_pc = "start"
    /\ pw_i = 0
    /\ pw_cell_updates = <<>>
    /\ pw_rows_done = <<>>
    /\ pw_last = NoPwLast
    /\ pw_written = <<>>
    /\ pw_response = <<>>

\* do_GET steps 1 and 2: connect and read the sheet; get_google_sheet may raise,
\* and does without the credentials or the sheet URL (then the handler answers
\* 500), an empty sheet returns at once
PwOpenSheet ==
    /\ prog = "pw" /\ pw_pc = "start"
    /\ \E o \in (IF env.GOOGLE_CREDENTIALS THEN {"ok", "empty", "raises"} ELSE {"raises"}) :
          /\ pw_pc' = IF o = "ok" THEN "rows" ELSE "done"
          /\ pw_response' = IF o = "raises" THEN <<500>> ELSE pw_response
    /\ UNCHANGED <<prog, env, pw_i, pw_cell_updates, pw_rows_done, pw_last, pw_written>>
    /\ UNCHANGED notPw

\* do_GET: one pass of `for index, row in enumerate(rows_to_check)`.  An
\* exception of the search (it raises without SERPAPI_KEY) or of find_offer
\* leaves the loop for the handler's `except Exception`, which answers 500.
PwRow ==
    /\ prog = "pw" /\ pw_pc = "rows" /\ pw_i < MaxPwRows
    /\ \E row \in PwRows, s \in PwSearches :
        LET sheet_row_index == pw_i + 2
            skipped == row.GTIN = "" \/ row.Product_Name = "" \/ row.Brand = ""
                       \/ row.My_Price = "" \/ row.MPN = ""
            fa == find_offer(s.offers, PyStr(row.CompetitorA_Name), row.Brand, row.MPN)
            fb == find_offer(filtered_results(s.offers, row.CompetitorA_Name), PyNone, row.Brand, row.MPN)
            failed == ~env.SERPAPI_KEY \/ s.raised \/ fa.raised \/ fb.raised
        IN  /\ pw_i' = pw_i + 1
            /\ IF skipped
               THEN /\ pw_last' = [NoPwLast EXCEPT !.row = row, !.outcome = "skipped"]
                    /\ pw_rows_done' = Append(pw_rows_done, "skipped")
                    /\ UNCHANGED <<pw_pc, pw_cell_updates, pw_response>>
               ELSE IF failed
               THEN /\ pw_last' = [NoPwLast EXCEPT !.row = row, !.results = s.offers, !.outcome = "raised"]
                    /\ pw_rows_done' = Append(pw_rows_done, "raised")
                    /\ pw_pc' = "done"
                    /\ pw_response' = Append(pw_response, 500)
                    /\ UNCHANGED pw_cell_updates
               ELSE /\ pw_last' = [row |-> row, results |-> s.offers, offer_A |-> fa.offer,
                                   best |-> fb.offer, outcome |-> "processed"]
                    /\ pw_rows_done' = Append(pw_rows_done, "processed")
                    /\ pw_cell_updates' = pw_cell_updates
                                            \o pw_row_cells(sheet_row_index, fa.offer, fb.offer, row.My_Price)
                    /\ UNCHANGED <<pw_pc, pw_response>>
    /\ UNCHANGED <<prog, env, pw_written>>
    /\ UNCHANGED notPw

\* do_GET step 3, after the last row: update_cells when there is something to
\* write, then the 200 response
PwFinish ==
    /\ prog = "pw" /\ pw_pc = "rows"
    /\ pw_written' = IF pw_cell_updates # <<>> THEN <<pw_cell_updates>> ELSE pw_written
    /\ pw_response' = Append(pw_response, 200)
    /\ pw_pc' = "done"
    /\ UNCHANGED <<prog, env, pw_i, pw_cell_updates, pw_rows_done, pw_last>>
    /\ UNCHANGED notPw

PwNext ==
    \/ PwOpenSheet
    \/ PwRow
    \/ PwFinish

----------------------------------------------------------------------------
(* competitor_price_via_serpapi_webscrape.py: title_ok *)

title_ok(row, title) ==
    LET brand == Lower(Strip(row.Brand))
        mpn == Strip(row.MPN)
        pname == Lower(Strip(row.Product_Name))
        t == Lower(title)
        has_brand == brand # "" /\ Contains(brand, t)
        has_mpn == mpn # "" /\ \E v \in MpnTitleVariants(mpn) : v # "" /\ Contains(v, t)
    IN  IF has_brand /\ has_mpn THEN TRUE
        ELSE IF has_mpn /\ brand = "" THEN TRUE
        ELSE IF has_brand /\ pname # ""
        THEN \E x \in Range(NameKeywords(pname)) : Contains(x, t)
        ELSE FALSE

----------------------------------------------------------------------------
(* The identity checks of the three resolvers, applied to one target and one *)
(* offer title.                                                              *)

IdRows ==
    [Brand : {"", "GB"}, MPN : {"", "A-1"}, Product_Name : {"", "Edge Rear Carbon Pro"}]

IdTitles ==
    {"", "GB", "gb edge", "GB Edge Carbon", "gb rear pro unit", "GB A1 computer", "gb a-1",
     "A 1 unit", "a1 edge carbon pro", "Edge Carbon Pro"}

FnInit ==
    /\ fn_pc = "ready"
    /\ fn_in = <<>>
    /\ fn_out = <<>>

\* the caller picks the target and the offer title
IdentityPick ==
    /\ prog = "identity" /\ fn_pc = "ready"
    /\ \E row \in IdRows, title \in IdTitles : fn_in' = [row |-> row, title |-> title]
    /\ fn_pc' = "picked"
    /\ UNCHANGED <<prog, env, fn_out>>
    /\ UNCHANGED notFn

\* title_matches and title_ok on the title; find_offer on a one-offer result
\* list of another store carrying the title
IdentityApply ==
    /\ prog = "identity" /\ fn_pc = "picked"
    /\ fn_out' = [title_matches |-> title_matches(fn_in.row, fn_in.title),
                  title_ok |-> title_ok(fn_in.row, fn_in.title),
                  find_offer |-> find_offer(<<[source |-> "Jenson USA", title |-> fn_in.title,
                                               price |-> PyStr("$420.00")]>>,
                                            PyNone, fn_in.row.Brand, fn_in.row.MPN).offer # <<>>]
    /\ fn_pc' = "done"
    /\ UNCHANGED <<prog, env, fn_in>>
    /\ UNCHANGED notFn

IdentityNext ==
    \/ IdentityPick
    \/ IdentityApply

----------------------------------------------------------------------------
(* competitor_price_scrape_multi.py: validate_and_price *)

\* what fetching and reading the candidate's page gives: the fetch or an
\* extractor raises, the fetch answers >= 400 or empty, or the page is read;
\* then whether its URL looks like a category page, whether the shop is a
\* Shopify shop, the price each extractor finds (None: none) and the three
\* identity signals find_gtin_like, find_mpn_like and title_similarity > 0.35
MultiPrices == {PyNone, PyNum(2000), PyNum(3900), PyNum(70000)}

MultiPages ==
    [status : {"ok", "bad_fetch", "raises"}, category : BOOLEAN, shopify : BOOLEAN,
     origin : {"shopify_json", "schema", "regex"}, price : MultiPrices,
     gtin_like : BOOLEAN, mpn_like : BOOLEAN, title_similar : BOOLEAN]

\* RowIn.My_Price as money_to_float gives it
MultiMyPrices == {PyNone, PyNum(0), PyNum(10000), PyNum(130000)}

\* the price the extractor `origin` reads off the page
multi_extracted(page, origin) == IF page.origin = origin THEN page.price ELSE PyNone

\* row.My_Price and p < min(0.25*row.My_Price, 40)
multi_too_low(my_price, p) ==
    /\ ~IsNone(my_price) /\ my_price.n # 0
    /\ 4 * p.n < my_price.n /\ p.n < 40 * 100

\* the confidence the identity signals add
multi_identity_conf(page) ==
    (IF page.gtin_like THEN 2 ELSE 0) + (IF page.mpn_like THEN 1 ELSE 0)
        + (IF page.title_similar THEN 1 ELSE 0)

MultiResult(p, by, conf) == [price |-> p, matched_by |-> by, conf |-> conf]

\* validate_and_price with the schema path refusing a too low price as the
\* regex path does
validate_and_price_schema_floor(my_price, page) ==
    IF page.status = "raises" THEN MultiResult(PyNone, "exception", -4)
    ELSE IF page.status = "bad_fetch" THEN MultiResult(PyNone, "bad_fetch", -5)
    ELSE IF page.category THEN MultiResult(PyNone, "category_page", -3)
    ELSE IF page.shopify
    THEN LET p == multi_extracted(page, "shopify_json")
             conf == (IF ~IsNone(p) THEN 2 ELSE 0) + multi_identity_conf(page)
         IN  MultiResult(p, "shopify_json",
                         IF ~IsNone(p) /\ multi_too_low(my_price, p) THEN conf - 3 ELSE conf)
    ELSE LET p == multi_extracted(page, "schema")
             r == multi_extracted(page, "regex")
             conf == multi_identity_conf(page) + (IF ~IsNone(p) THEN 2 ELSE 0)
         IN  IF ~IsNone(p)
             THEN IF multi_too_low(my_price, p) THEN MultiResult(PyNone, "schema_too_low", -2)
                  ELSE MultiResult(p, "schema", conf)
             ELSE IF ~IsNone(r)
             THEN IF multi_too_low(my_price, r) THEN MultiResult(PyNone, "regex_too_low", -2)
                  ELSE MultiResult(r, "regex", 0)
             ELSE MultiResult(PyNone, "no_price", -1)

\* validate_and_price(row, cand): (price, matched_by, confidence)
validate_and_price(my_price, page) ==
    IF page.status = "raises" THEN MultiResult(PyNone, "exception", -4)
    ELSE IF page.status = "bad_fetch" THEN MultiResult(PyNone, "bad_fetch", -5)
    ELSE IF page.category THEN MultiResult(PyNone, "category_page", -3)
    ELSE IF page.shopify
    THEN LET p == multi_extracted(page, "shopify_json")
             conf == (IF ~IsNone(p) THEN 2 ELSE 0) + multi_identity_conf(page)
         IN  MultiResult(p, "shopify_json",
                         IF ~IsNone(p) /\ multi_too_low(my_price, p) THEN conf - 3 ELSE conf)
    ELSE LET p == multi_extracted(page, "schema")
             r == multi_extracted(page, "regex")
             conf == multi_identity_conf(page) + (IF ~IsNone(p) THEN 2 ELSE 0)
         IN  IF ~IsNone(p)
             THEN MultiResult(p, "schema", IF multi_too_low(my_price, p) THEN conf - 3 ELSE conf)
             ELSE IF ~IsNone(r)
             THEN IF multi_too_low(my_price, r) THEN MultiResult(PyNone, "regex_too_low", -2)
                  ELSE MultiResult(r, "regex", 0)
             ELSE MultiResult(PyNone, "no_price", -1)

\* the caller picks the target's reference price and the candidate's page
PlausiblePick ==
    /\ prog = "plausible" /\ fn_pc = "ready"
    /\ \E my_price \in MultiMyPrices, page \in MultiPages :
          fn_in' = [my_price |-> my_price, page |-> page]
    /\ fn_pc' = "picked"
    /\ UNCHANGED <<prog, env, fn_out>>
    /\ UNCHANGED notFn

\* validate_and_price on the page, and reasonable_price of the serpapi resolver
\* on the page's price for a row with the same My_Price
PlausibleApply ==
    /\ prog = "plausible" /\ fn_pc = "picked"
    /\ fn_out' = [validated |-> validate_and_price(fn_in.my_price, fn_in.page),
                  reasonable |->
                      serp_reasonable_price(
                          [My_Price |-> IF IsNone(fn_in.my_price) THEN "" ELSE Fmt2(fn_in.my_price.n)],
                          fn_in.page.price)]
    /\ fn_pc' = "done"
    /\ UNCHANGED <<prog, env, fn_in>>
    /\ UNCHANGED notFn

PlausibleNext ==
    \/ PlausiblePick
    \/ PlausibleApply

----------------------------------------------------------------------------
(* Selection among offers that pass every gate: best_valid_hit of the        *)
(* serpapi resolver and the wildcard find_offer of Price Watch.              *)

MaxSelHits == 3

SelRow == [GTIN |-> "", MPN |-> "A1", Brand |-> "GB", Product_Name |-> "", My_Price |-> "700.00"]

\* hits of the two allowed merchants, each identifying the product, at 500, 420 or 610
SelHits ==
    {[link |-> m[1], title |-> "GB Edge A1", seller |-> m[2], price |-> PyNum(p)] :
        m \in {<<"https://www.backcountry.com/p/1", "Backcountry">>,
               <<"https://shop.sportsbasement.com/p/2", "Sports Basement">>},
        p \in {50000, 42000, 61000}}

\* the same offer as an item of a Price Watch search answer
SelItem(h) == [source |-> h.seller, title |-> h.title, price |-> PyStr("$" \o Fmt2(h.price.n))]

\* the caller picks the list of offers, in any order
SelectPick ==
    /\ prog = "select" /\ fn_pc = "ready"
    /\ \E hits \in SeqsUpTo(SelHits, MaxSelHits) : fn_in' = hits
    /\ fn_pc' = "picked"
    /\ UNCHANGED <<prog, env, fn_out>>
    /\ UNCHANGED notFn

SelectApply ==
    /\ prog = "select" /\ fn_pc = "picked"
    /\ fn_out' = [best_valid_hit |-> best_valid_hit(SelRow, fn_in),
                  find_offer |-> find_offer([i \in 1..Len(fn_in) |-> SelItem(fn_in[i])],
                                            PyNone, SelRow.Brand, SelRow.MPN).offer]
    /\ fn_pc' = "done"
    /\ UNCHANGED <<prog, env, fn_in>>
    /\ UNCHANGED notFn

SelectNext ==
    \/ SelectPick
    \/ SelectApply

----------------------------------------------------------------------------
(* competitor_price_via_serpapi_webscrape.py: search_and_validate *)

MaxWebResults == 2

web_ALLOWED_DOMAINS ==
    {"backcountry.com", "www.backcountry.com",
     "sportsbasement.com", "www.sportsbasement.com", "shop.sportsbasement.com"}

\* host(url): urlparse(url).netloc.lower()
host(url) == Lower(Netloc(url))

web_site_clause == " (site:backcountry.com OR site:sportsbasement.com OR site:shop.sportsbasement.com)"

WebRows ==
    [GTIN : {"", "0123"}, MPN : {"", "a-1"}, Brand : {"gb"}, Product_Name : {"", "edge"},
     My_Price : {"1300"}]

WebItem(link, found) ==
    [link |-> link, product_link |-> "", title |-> "GB Edge A-1 computer", found |-> found]

\* organic results, each with the records fetch_and_extract would read off its
\* page when fetched ([] when the fetch fails)
WebItems ==
    { WebItem("https://www.backcountry.com/p/edge", <<[gtin |-> "0123", mpn |-> "", price |-> "1250.00"]>>),
      WebItem("https://WWW.SportsBasement.com/edge",
              <<[gtin |-> "", mpn |-> "A1", price |-> "1,199.00"], [gtin |-> "", mpn |-> "", price |-> ""]>>),
      WebItem("https://www.amazon.com/backcountry.com/edge",
              <<[gtin |-> "0123", mpn |-> "A1", price |-> "1100.00"]>>),
      WebItem("https://backcountry.com.deals.io/edge", <<[gtin |-> "0123", mpn |-> "A1", price |-> "999.00"]>>),
      WebItem("https://www.backcountry.com/p/edge-mount", <<[gtin |-> "0123", mpn |-> "A1", price |-> "20.00"]>>),
      WebItem("", <<>>) }

WebResponses ==
    {[raised |-> TRUE, results |-> <<>>]}
    \cup {[raised |-> FALSE, results |-> rs] : rs \in SeqsUpTo(WebItems, MaxWebResults)}

NoWebResponse == [raised |-> FALSE, results |-> <<>>]

NoWebRet == [match_by |-> "", url |-> "", price |-> ""]

\* the list `queries` of search_and_validate
web_build_queries(row) ==
    LET gtin == Strip(row.GTIN)
        mpn == Strip(row.MPN)
        brand == Strip(row.Brand)
        pname == Strip(row.Product_Name)
        vs == SelectSeq([i \in 1..4 |-> Strip(MpnQueryVariants(mpn)[i])], LAMBDA v : v # "")
        kw == CleanName(pname)
        mk(qtype, text) == [qtype |-> qtype, q |-> "\"" \o text \o "\"" \o web_site_clause]
    IN  (IF gtin # "" THEN <<mk("GTIN", gtin)>> ELSE <<>>)
        \o (IF brand # "" /\ mpn # ""
            THEN [i \in 1..Len(vs) |-> mk("Brand+MPN", brand \o " " \o vs[i])] ELSE <<>>)
        \o (IF mpn # "" THEN [i \in 1..Len(vs) |-> mk("MPN", vs[i])] ELSE <<>>)
        \o (IF brand # "" /\ pname # "" /\ kw # "" THEN <<mk("Brand+Name", brand \o " " \o kw)>> ELSE <<>>)

\* matches_identifiers(row, found)
matches_identifiers(row, found) ==
    LET want_gtin == Strip(row.GTIN)
        want_mpn == normalize_mpn(row.MPN)
    IN  \E i \in 1..Len(found) :
            \/ want_gtin # "" /\ Strip(found[i].gtin) # "" /\ want_gtin = Strip(found[i].gtin)
            \/ want_mpn # "" /\ normalize_mpn(found[i].mpn) # "" /\ want_mpn = normalize_mpn(found[i].mpn)

RECURSIVE web_candidate_price(_, _)
\* for f in found: candidate_price = f.get("price") or candidate_price
web_candidate_price(found, candidate_price) ==
    IF found = <<>> THEN candidate_price
    ELSE web_candidate_price(Tail(found), IF Head(found).price # "" THEN Head(found).price ELSE candidate_price)

\* reasonable_price(row, found_price)
web_reasonable_price(row, found_price) ==
    LET myp == norm_price(PyStr(row.My_Price))
        fp == norm_price(PyStr(found_price))
    IN  IF IsNone(fp) THEN FALSE
        ELSE IF IsNone(myp) \/ myp.n < BIG_TICKET_THRESHOLD * 100 THEN TRUE
        ELSE fp.n * 100 >= myp.n * MIN_FRACTION_OF_MY_PRICE

\* the body of `for item in results`: TRUE when the item reaches the return
web_item_accepted(row, item) ==
    LET link == IF item.link # "" THEN item.link ELSE item.product_link
        candidate_price == web_candidate_price(item.found, "")
    IN  /\ link # "" /\ host(link) \in web_ALLOWED_DOMAINS
        /\ title_ok(row, item.title)
        /\ item.found # <<>>
        /\ matches_identifiers(row, item.found)
        /\ candidate_price # "" /\ web_reasonable_price(row, candidate_price)

WebInit ==
    /\ web_pc = "call"
    /\ web_row = NoRow
    /\ web_queries = <<>>
    /\ web_qi = 1
    /\ web_trace = <<>>
    /\ web_last = NoWebResponse
    /\ web_ret = NoWebRet

\* main() calls search_and_validate(row), which builds `queries`
WebCall ==
    /\ prog = "web" /\ web_pc = "call"
    /\ \E row \in WebRows : web_row' = row /\ web_queries' = web_build_queries(row)
    /\ web_pc' = "loop"
    /\ UNCHANGED <<prog, env, web_qi, web_trace, web_last, web_ret>>
    /\ UNCHANGED notWeb

\* one pass of `for qtype, q in queries`: the search (an exception leaves the
\* function), the result loop up to the first accepted item, else the sleep;
\* accepted holds the items the result loop accepts for this row
WebQuery ==
    /\ prog = "web" /\ web_pc = "loop" /\ web_qi <= Len(web_queries)
    /\ \E resp \in WebResponses, accepted \in {{item \in WebItems : web_item_accepted(web_row, item)}} :
          LET cur == web_queries[web_qi]
              sent == Append(web_trace, [ev |-> "query", tier |-> cur.qtype, q |-> cur.q])
              ok == SelectSeq(resp.results, LAMBDA item : item \in accepted)
          IN  /\ web_last' = resp
              /\ IF resp.raised
                 THEN /\ web_trace' = sent /\ web_pc' = "raised"
                      /\ UNCHANGED <<web_qi, web_ret>>
                 ELSE IF ok # <<>>
                 THEN /\ web_trace' = sent /\ web_pc' = "returned"
                      /\ web_ret' = [match_by |-> cur.qtype,
                                     url |-> IF ok[1].link # "" THEN ok[1].link ELSE ok[1].product_link,
                                     price |-> web_candidate_price(ok[1].found, "")]
                      /\ UNCHANGED web_qi
                 ELSE /\ web_trace' = Append(sent, [ev |-> "sleep", tier |-> "", q |-> ""])
                      /\ web_qi' = web_qi + 1
                      /\ UNCHANGED <<web_pc, web_ret>>
    /\ UNCHANGED <<prog, env, web_row, web_queries>>
    /\ UNCHANGED notWeb

\* the loop is over: `return None, None, None`
WebExhausted ==
    /\ prog = "web" /\ web_pc = "loop" /\ web_qi > Len(web_queries)
    /\ web_pc' = "returned"
    /\ web_ret' = NoWebRet
    /\ UNCHANGED <<prog, env, web_row, web_queries, web_qi, web_trace, web_last>>
    /\ UNCHANGED notWeb

WebNext ==
    \/ WebCall
    \/ WebQuery
    \/ WebExhausted

----------------------------------------------------------------------------
(* shopping_offers_match.py: run()'s call of find_best_competitor_offer *)

MaxProductItems == 2

MaxOffers == 2

so_ALLOWED_DOMAINS ==
    {"backcountry.com", "www.backcountry.com",
     "competitivecyclist.com", "www.competitivecyclist.com",
     "excelsports.com", "www.excelsports.com",
     "mikesbikes.com", "www.mikesbikes.com",
     "performancebike.com", "www.performancebike.com",
     "sportsbasement.com", "shop.sportsbasement.com", "www.sportsbasement.com",
     "jensonusa.com", "www.jensonusa.com"}

MERCHANT_TO_DOMAIN_HINTS ==
    ("Backcountry.com" :> "www.backcountry.com") @@ ("Backcountry" :> "www.backcountry.com")
    @@ ("Competitive Cyclist" :> "www.competitivecyclist.com") @@ ("Excel Sports" :> "www.excelsports.com")
    @@ ("Mike's Bikes" :> "mikesbikes.com") @@ ("Performance Bicycle" :> "www.performancebike.com")
    @@ ("Sports Basement" :> "www.sportsbasement.com") @@ ("Jenson USA" :> "www.jensonusa.com")

\* host_of(url)
host_of(url) == Lower(Netloc(url))

\* merchant_to_domain(merchant_name, offer_url): the set of strings the call can
\* return.  The fallback returns the first allowed domain containing the key
\* in the iteration order of the set ALLOWED_DOMAINS, which is any of them.
merchant_to_domain(merchant_name, offer_url) ==
    IF Truthy(merchant_name) /\ merchant_name.s \in DOMAIN MERCHANT_TO_DOMAIN_HINTS
    THEN {Lower(MERCHANT_TO_DOMAIN_HINTS[merchant_name.s])}
    ELSE IF Truthy(offer_url) /\ host_of(offer_url.s) # ""
    THEN {host_of(offer_url.s)}
    ELSE IF Truthy(merchant_name)
    THEN LET key == RemoveChars(Lower(merchant_name.s), " '")
             hits == {d \in so_ALLOWED_DOMAINS : Contains(key, RemoveChars(d, "."))}
         IN  IF hits = {} THEN {""} ELSE hits
    ELSE {""}

\* price_diff(my_price, their_price): round(my_price - their_price, 2), or None
price_diff(my_price, their_price) ==
    IF IsNone(my_price) \/ IsNone(their_price) THEN PyNone ELSE PyNum(my_price.n - their_price.n)

\* allowed_domain with the membership test left out
allowed_domain_any(domain) == TRUE

\* allowed_domain(domain)
allowed_domain(domain) == Lower(domain) \in so_ALLOWED_DOMAINS

RECURSIVE SplitTokens(_, _)
\* [t for t in re.split(r"[\s\-_/]+", s) if t]; cur is the piece being read
SplitTokens(s, cur) ==
    IF s = "" THEN (IF cur = "" THEN <<>> ELSE <<cur>>)
    ELSE IF Ch(s, 1) \in {" ", "-", "_", "/"}
    THEN (IF cur = "" THEN <<>> ELSE <<cur>>) \o SplitTokens(SubSeq(s, 2, Len(s)), "")
    ELSE SplitTokens(SubSeq(s, 2, Len(s)), cur \o Ch(s, 1))

\* the first product_id of the items, "" (None) when no item has one
FirstProductId(items) ==
    LET having == SelectSeq(items, LAMBDA it : it.product_id # "")
    IN  IF having = <<>> THEN "" ELSE having[1].product_id

\* find_product_id_by_gtin(gtin), given the payload of its query
find_product_id_by_gtin(items) == FirstProductId(items)

\* find_product_id_by_brand_mpn(brand, mpn), given the payload of its query: the
\* first item with a product_id whose title has the first two tokens, else the
\* first item with a product_id
find_product_id_by_brand_mpn(brand, mpn, items) ==
    LET raw == SplitTokens(brand \o " " \o mpn, "")
        tokens == [i \in 1..Len(raw) |-> Lower(raw[i])]
        titled == SelectSeq(items, LAMBDA it :
                        /\ tokens # <<>>
                        /\ \A t \in Range(Take(tokens, 2)) : Contains(t, Lower(it.title))
                        /\ it.product_id # "")
    IN  IF titled # <<>> THEN titled[1].product_id ELSE FirstProductId(items)

\* get_offers_for_product_id: the common shape of one offer of the payload
so_normalize(o) ==
    [merchant |-> PyOr(o.seller_name, PyOr(o.source, PyNone)),
     price |-> norm_price(PyOr(o.extracted_price, o.price)),
     link |-> PyOr(o.link, PyNone)]

RECURSIVE so_domains(_)
\* what the calls merchant_to_domain(o.get("merchant"), o.get("link")) of the loop
\* over offers can return, offer by offer
so_domains(offers) ==
    IF offers = <<>> THEN {<<>>}
    ELSE {<<d>> \o rest : d \in merchant_to_domain(Head(offers).merchant, Head(offers).link),
                          rest \in so_domains(Tail(offers))}

NoBest == [domain |-> "", price |-> PyNone, url |-> ""]

RECURSIVE so_select(_, _, _, _)
\* the loop over offers of find_best_competitor_offer; doms[i] is what
\* merchant_to_domain returned for offers[i]
so_select(offers, doms, i, best) ==
    IF i > Len(offers) THEN best
    ELSE IF doms[i] = "" \/ ~allowed_domain(doms[i]) \/ IsNone(offers[i].price)
    THEN so_select(offers, doms, i + 1, best)
    ELSE IF IsNone(best.price) \/ offers[i].price.n < best.price.n
    THEN so_select(offers, doms, i + 1,
                   [domain |-> doms[i], price |-> offers[i].price,
                    url |-> IF Truthy(offers[i].link) THEN offers[i].link.s ELSE ""])
    ELSE so_select(offers, doms, i + 1, best)

OffersRows ==
    [Product_Name : {"", "Edge"}, GTIN : {"", "0123"}, MPN : {"", "A-1"}, Brand : {"", "GB"},
     My_Price : {"1,300.00"}]

NoOffersRow == [Product_Name |-> "", GTIN |-> "", MPN |-> "", Brand |-> "", My_Price |-> ""]

\* items of a google_shopping payload
ProductItems ==
    {[product_id |-> "p1", title |-> "GB Edge A-1 computer"],
     [product_id |-> "p2", title |-> "Bike bell"],
     [product_id |-> "", title |-> "GB A-1"]}

\* what serpapi_query can do for a google_shopping search
ProductResponses ==
    {[raised |-> TRUE, items |-> <<>>]}
    \cup {[raised |-> FALSE, items |-> l] : l \in SeqsUpTo(ProductItems, MaxProductItems)}

SoOffer(seller_name, source, extracted_price, price, link) ==
    [seller_name |-> seller_name, source |-> source, extracted_price |-> extracted_price,
     price |-> price, link |-> link]

\* offers of a google_product payload
RawOffers ==
    {SoOffer(PyStr("Backcountry"), PyNone, PyNum(125000), PyStr("$1,250.00"),
             PyStr("https://www.google.com/url?q=backcountry")),
     SoOffer(PyNone, PyStr("Jenson"), PyNone, PyStr("$1,199.00"), PyNone),
     SoOffer(PyStr("Amazon"), PyNone, PyNum(99900), PyNone, PyStr("https://www.amazon.com/dp/edge")),
     SoOffer(PyStr("Deals"), PyNone, PyNone, PyStr("$950"), PyStr("https://backcountry.com.deals.io/edge")),
     SoOffer(PyNone, PyNone, PyNum(130000), PyNone, PyStr("https://Shop.SportsBasement.com/edge")),
     SoOffer(PyStr("Mike's Bikes"), PyNone, PyNone, PyStr("Call"), PyStr("https://mikesbikes.com/edge"))}

\* what serpapi_query can do for a google_product fetch
OfferResponses ==
    {[raised |-> TRUE, offers |-> <<>>]}
    \cup {[raised |-> FALSE, offers |-> l] : l \in SeqsUpTo(RawOffers, MaxOffers)}

NoSoLast == [offers |-> <<>>, doms |-> <<>>]

NoSoRet == [domain |-> "", price |-> PyNone, url |-> "", matched_by |-> ""]

SoSleep == [ev |-> "sleep", tier |-> "", q |-> ""]

OffersInit ==
    /\ so_pc = "call"
    /\ so_row = NoOffersRow
    /\ so_product_id = ""
    /\ so_matched_by = ""
    /\ so_trace = <<>>
    /\ so_last = NoSoLast
    /\ so_ret = NoSoRet
    /\ so_out = <<>>

\* run() reads a row (lines 280-283) and calls find_best_competitor_offer
OffersCall ==
    /\ prog = "offers" /\ so_pc = "call"
    /\ \E row \in OffersRows : so_row' = row
    /\ so_pc' = "gtin"
    /\ UNCHANGED <<prog, env, so_product_id, so_matched_by, so_trace, so_last, so_ret, so_out>>
    /\ UNCHANGED notOffers

\* 1) Try GTIN first
OffersGtin ==
    /\ prog = "offers" /\ so_pc = "gtin"
    /\ IF so_row.GTIN # ""
       THEN \E resp \in ProductResponses :
              LET pid == IF resp.raised THEN "" ELSE find_product_id_by_gtin(resp.items)
              IN  /\ so_product_id' = pid
                  /\ so_matched_by' = IF ~resp.raised /\ pid # "" THEN "GTIN" ELSE ""
                  /\ so_trace' = so_trace \o <<[ev |-> "query", tier |-> "GTIN",
                                                q |-> "\"" \o so_row.GTIN \o "\""], SoSleep>>
       ELSE UNCHANGED <<so_product_id, so_matched_by, so_trace>>
    /\ so_pc' = "brand_mpn"
    /\ UNCHANGED <<prog, env, so_row, so_last, so_ret, so_out>>
    /\ UNCHANGED notOffers

\* 2) Try Brand+MPN, then return the empty result when no product_id was found
OffersBrandMpn ==
    /\ prog = "offers" /\ so_pc = "brand_mpn"
    /\ IF so_product_id # ""
       THEN /\ so_pc' = "offers"
            /\ UNCHANGED <<so_product_id, so_matched_by, so_trace, so_ret>>
       ELSE LET brand == so_row.Brand
                mpn == so_row.MPN
                q == Strip(brand \o (IF brand # "" /\ mpn # "" THEN " " ELSE "") \o mpn)
                asks == ~(brand = "" /\ mpn = "") /\ q # ""
            IN  \E resp \in (IF asks THEN ProductResponses ELSE {[raised |-> FALSE, items |-> <<>>]}) :
                  LET pid == IF resp.raised THEN ""
                             ELSE find_product_id_by_brand_mpn(brand, mpn, resp.items)
                      by == IF ~resp.raised /\ pid # "" THEN "BRAND+MPN"
                            ELSE IF resp.raised THEN so_matched_by ELSE ""
                  IN  /\ so_product_id' = pid
                      /\ so_matched_by' = by
                      /\ so_trace' = so_trace
                                     \o (IF asks THEN <<[ev |-> "query", tier |-> "BRAND+MPN", q |-> q]>>
                                         ELSE <<>>)
                                     \o <<SoSleep>>
                      /\ IF pid = ""
                         THEN so_pc' = "returned" /\ so_ret' = NoSoRet
                         ELSE so_pc' = "offers" /\ UNCHANGED so_ret
    /\ UNCHANGED <<prog, env, so_row, so_last, so_out>>
    /\ UNCHANGED notOffers

\* 3) Get offers and filter to allowed domains
OffersFetch ==
    /\ prog = "offers" /\ so_pc = "offers"
    /\ \E resp \in OfferResponses :
          LET offers == [i \in 1..Len(resp.offers) |-> so_normalize(resp.offers[i])]
              sent == Append(so_trace, [ev |-> "fetch", tier |-> so_matched_by, q |-> so_product_id])
          IN  /\ so_trace' = sent
              /\ IF resp.raised
                 THEN /\ so_ret' = [NoSoRet EXCEPT !.matched_by = so_matched_by]
                      /\ so_last' = NoSoLast
                 ELSE \E doms \in so_domains(offers) :
                        /\ so_last' = [offers |-> offers, doms |-> doms]
                        /\ LET best == so_select(offers, doms, 1, NoBest)
                           IN  so_ret' = [domain |-> best.domain, price |-> best.price, url |-> best.url,
                                          matched_by |-> so_matched_by]
    /\ so_pc' = "returned"
    /\ UNCHANGED <<prog, env, so_row, so_product_id, so_matched_by, so_out>>
    /\ UNCHANGED notOffers

\* run(): the rest of the loop body after find_best_competitor_offer returned:
\* price_diff, the new fields of the row, rows_out.append
OffersFinishRow ==
    /\ prog = "offers" /\ so_pc = "returned"
    /\ LET my_price == norm_price(PyStr(so_row.My_Price))
           comp_price == so_ret.price
           diff == price_diff(my_price, comp_price)
           new_row == [Match_Source |-> IF so_ret.domain # "" THEN so_ret.domain ELSE "NO_MATCH",
                       Match_URL |-> so_ret.url,
                       Match_Price |-> IF IsNone(comp_price) THEN "" ELSE Fmt2(comp_price.n),
                       Match_By |-> IF so_ret.matched_by # "" THEN so_ret.matched_by ELSE "NO_MATCH",
                       Price_Diff |-> IF IsNone(diff) THEN "" ELSE Fmt2(diff.n)]
       IN  so_out' = Append(so_out, new_row)
    /\ so_pc' = "appended"
    /\ UNCHANGED <<prog, env, so_row, so_product_id, so_matched_by, so_trace, so_last, so_ret>>
    /\ UNCHANGED notOffers

OffersNext ==
    \/ OffersCall
    \/ OffersGtin
    \/ OffersBrandMpn
    \/ OffersFetch
    \/ OffersFinishRow

----------------------------------------------------------------------------
(* shopping_immersive_match.py: offers_from_immersive *)

MaxImmObjs == 2

DENY_DOMAINS ==
    {"ebay.com", "ebay.ca", "ebay.co.uk", "aliexpress.com", "amazon.com",
     "walmart.com", "target.com", "facebook.com", "google.com"}

\* _domain(url)
_domain(url) ==
    LET netloc == Lower(Netloc(url))
    IN  IF StartsWith(netloc, "www.") THEN SubSeq(netloc, 5, Len(netloc)) ELSE netloc

RECURSIVE LeadingFloat(_, _)
\* the loop of price_to_float: the leading digits with at most one "."
LeadingFloat(s, dot_seen) ==
    IF s = "" THEN ""
    ELSE IF IsDigit(Ch(s, 1)) THEN Ch(s, 1) \o LeadingFloat(SubSeq(s, 2, Len(s)), dot_seen)
    ELSE IF Ch(s, 1) = "." /\ ~dot_seen THEN "." \o LeadingFloat(SubSeq(s, 2, Len(s)), TRUE)
    ELSE ""

\* price_to_float(p)
price_to_float(p) ==
    IF IsNone(p) \/ p = PyStr("") THEN PyNone
    ELSE IF p.t = "num" THEN p
    ELSE LET num == LeadingFloat(Strip(RemoveChars(p.s, "$,")), FALSE)
         IN  IF num = "" THEN PyNone ELSE ParseFloat(num)

\* collect_offers_from_obj on the offer-like dicts of a payload, in the order
\* the walk meets them (their values are scalars)
collect_offers(objs) ==
    LET priced == [i \in 1..Len(objs) |->
                      [title |-> objs[i].title, seller |-> objs[i].source, link |-> objs[i].link,
                       price |-> PyOr(objs[i].extracted_price, objs[i].price)]]
        kept == SelectSeq(priced, LAMBDA o : Truthy(o.link) /\ ~IsNone(o.price))
    IN  [i \in 1..Len(kept) |->
            [title |-> kept[i].title, seller |-> kept[i].seller, link |-> kept[i].link.s,
             extracted_price |-> price_to_float(kept[i].price)]]

\* any(dom.endswith(d) for d in DENY_DOMAINS)
denied(dom) == \E d \in DENY_DOMAINS : EndsWith(dom, d)

RECURSIVE imm_uniq(_, _)
\* the deduplication loop of offers_from_immersive
imm_uniq(cleaned, seen) ==
    IF cleaned = <<>> THEN <<>>
    ELSE LET o == Head(cleaned)
             key == <<o.domain, o.price, o.link>>
         IN  IF key \in seen THEN imm_uniq(Tail(cleaned), seen)
             ELSE <<o>> \o imm_uniq(Tail(cleaned), seen \cup {key})

\* offers_from_immersive without the deduplication loop
offers_from_immersive_no_dedup(objs) ==
    LET offers == collect_offers(objs)
        priced == SelectSeq(offers, LAMBDA off : ~IsNone(off.extracted_price))
        located == [i \in 1..Len(priced) |->
                       [title |-> priced[i].title, seller |-> priced[i].seller, link |-> priced[i].link,
                        domain |-> _domain(priced[i].link), price |-> priced[i].extracted_price]]
    IN  SelectSeq(located, LAMBDA o : o.domain # "" /\ ~denied(o.domain))

\* offers_from_immersive(payload)
offers_from_immersive(objs) ==
    LET offers == collect_offers(objs)
        priced == SelectSeq(offers, LAMBDA off : ~IsNone(off.extracted_price))
        located == [i \in 1..Len(priced) |->
                       [title |-> priced[i].title, seller |-> priced[i].seller, link |-> priced[i].link,
                        domain |-> _domain(priced[i].link), price |-> priced[i].extracted_price]]
        cleaned == SelectSeq(located, LAMBDA o : o.domain # "" /\ ~denied(o.domain))
    IN  imm_uniq(cleaned, {})

ImmObj(source, extracted_price, price, link) ==
    [title |-> PyStr("GB Edge A-1"), source |-> source, extracted_price |-> extracted_price,
     price |-> price, link |-> link]

\* the offer-like dicts an immersive payload may carry
ImmObjs ==
    {ImmObj(PyStr("Jenson USA"), PyNum(119900), PyStr("$1,199.00"), PyStr("https://www.jensonusa.com/edge")),
     ImmObj(PyStr("JensonUSA.com"), PyNone, PyStr("$1199"), PyStr("https://www.jensonusa.com/edge")),
     ImmObj(PyStr("eBay"), PyNone, PyStr("$899.00 used"), PyStr("https://www.ebay.com/itm/1")),
     ImmObj(PyStr("eBay UK"), PyNum(85000), PyNone, PyStr("https://m.EBAY.co.uk/itm/2")),
     ImmObj(PyStr("Amazon"), PyNone, PyStr("950"), PyStr("https://smile.amazon.com/dp/3")),
     ImmObj(PyStr("Shop"), PyNone, PyStr("Call"), PyStr("https://shop.example.com/edge")),
     ImmObj(PyStr("Excel Sports"), PyNum(0), PyStr("1,250.50"), PyStr("https://excelsports.com/edge")),
     ImmObj(PyNone, PyNum(100000), PyNone, PyNone)}

ImmersivePick ==
    /\ prog = "immersive" /\ fn_pc = "ready"
    /\ \E objs \in SeqsUpTo(ImmObjs, MaxImmObjs) : fn_in' = objs
    /\ fn_pc' = "picked"
    /\ UNCHANGED <<prog, env, fn_out>>
    /\ UNCHANGED notFn

ImmersiveApply ==
    /\ prog = "immersive" /\ fn_pc = "picked"
    /\ fn_out' = offers_from_immersive(fn_in)
    /\ fn_pc' = "done"
    /\ UNCHANGED <<prog, env, fn_in>>
    /\ UNCHANGED notFn

ImmersiveNext ==
    \/ ImmersivePick
    \/ ImmersiveApply

----------------------------------------------------------------------------
(* The money parsers: money_to_float of competitor_price_scrape.py and      *)
(* competitor_price_scrape_multi.py, price_to_float of                      *)
(* shopping_immersive_match.py, norm_price of the SerpAPI resolvers.        *)

RECURSIVE KeepChars(_, _)
\* s without the characters outside the set keep
KeepChars(s, keep) ==
    IF s = "" THEN ""
    ELSE (IF Ch(s, 1) \in keep THEN Ch(s, 1) ELSE "") \o KeepChars(SubSeq(s, 2, Len(s)), keep)

\* a JSON integer i (a float is a PyNum, in cents)
PyInt(i) == [t |-> "int", s |-> "", n |-> i]

\* money_to_float(val): float(Decimal(s)) of the characters [\d.,-] of val,
\* the commas removed only when s has a comma and no dot; None when Decimal
\* rejects s
money_to_float(val) ==
    IF IsNone(val) THEN PyNone
    ELSE IF val.t = "num" THEN val
    ELSE IF val.t = "int" THEN PyNum(val.n * 100)
    ELSE LET kept == KeepChars(Strip(val.s), DigitChars \cup {".", ",", "-"})
             s == IF "," \in CharsOf(kept) /\ "." \notin CharsOf(kept)
                  THEN RemoveChars(kept, ",") ELSE kept
         IN  IF "," \in CharsOf(s) \/ "+" \in CharsOf(s) THEN PyNone ELSE ParseFloat(s)

\* price strings as pages and APIs carry them
MoneyStrings ==
    {c \o i \o f \o u : c \in {"", "$"}, i \in {"1299", "1,299", "0"}, f \in {"", ".00", ".5", ".99"},
                       u \in {"", " USD"}}
        \cup {"Call for price", "", " ", "-", "1.2.3", "$", "12-5", ","}

\* the values of a price field: a string, a number, or None
MoneyInputs == {PyStr(s) : s \in MoneyStrings} \cup {PyNum(129900), PyNum(0), PyNone}

\* the caller picks the raw price
MoneyPick ==
    /\ prog = "money" /\ fn_pc = "ready"
    /\ \E raw \in MoneyInputs : fn_in' = raw
    /\ fn_pc' = "picked"
    /\ UNCHANGED <<prog, env, fn_out>>
    /\ UNCHANGED notFn

\* each parser on the raw price
MoneyApply ==
    /\ prog = "money" /\ fn_pc = "picked"
    /\ fn_out' = [money_to_float |-> money_to_float(fn_in),
                  price_to_float |-> price_to_float(fn_in),
                  norm_price |-> norm_price(fn_in)]
    /\ fn_pc' = "done"
    /\ UNCHANGED <<prog, env, fn_in>>
    /\ UNCHANGED notFn

MoneyNext == MoneyPick \/ MoneyApply

----------------------------------------------------------------------------
(* The structured-data extractors: extract_jsonld of                        *)
(* competitor_price_via_serpapi_webscrape.py, parse_product_from_jsonld of  *)
(* platform_aware_product_probe.py, extract_price_from_structured of        *)
(* competitor_price_scrape.py.  JSON values are records tagged by their     *)
(* kind k.                                                                  *)

MaxLdItems == 2

\* an element of an "offers" list: an object with a price, or a string
LdOffer(price) == [k |-> "dict", price |-> price]

LdText == [k |-> "str", price |-> PyNone]

\* the "offers" value of a Product node: absent, an object, a list, a string
LdOffersAbsent == [k |-> "none", price |-> PyNone, elems |-> <<>>]

LdOffersDict(price) == [k |-> "dict", price |-> price, elems |-> <<>>]

LdOffersList(elems) == [k |-> "list", price |-> PyNone, elems |-> elems]

LdOffersStr == [k |-> "str", price |-> PyNone, elems |-> <<>>]

LdOffersValues ==
    {LdOffersAbsent, LdOffersStr,
     LdOffersDict(PyStr("699.99")), LdOffersDict(PyNone),
     LdOffersList(<<>>), LdOffersList(<<LdOffer(PyNum(64999))>>), LdOffersList(<<LdText>>),
     LdOffersList(<<LdOffer(PyStr("$649.99")), LdText>>)}

\* the items of a page's JSON-LD: a Product object, an object of another
\* @type, or a value that is no object
LdItems ==
    {[k |-> "product", offers |-> o, price |-> PyNone] : o \in LdOffersValues}
    \cup {[k |-> "product", offers |-> LdOffersAbsent, price |-> PyStr("1,299")],
          [k |-> "thing", offers |-> LdOffersAbsent, price |-> PyNone],
          [k |-> "str", offers |-> LdOffersAbsent, price |-> PyNone]}

RECURSIVE extract_jsonld_walk(_, _, _)
\* the `while stack` loop of extract_jsonld: cur = stack.pop() takes the items
\* from the last to the first; offers[0].get on an element that is no object
\* raises AttributeError
extract_jsonld_walk(stack, n, out) ==
    IF n = 0 THEN [raised |-> FALSE, out |-> out]
    ELSE LET cur == stack[n]
             offers == cur.offers
             price == IF offers.k = "dict" THEN offers.price
                      ELSE IF offers.k = "list" /\ offers.elems # <<>> THEN offers.elems[1].price
                      ELSE PyNone
         IN  IF cur.k # "product" THEN extract_jsonld_walk(stack, n - 1, out)
             ELSE IF offers.k = "list" /\ offers.elems # <<>> /\ offers.elems[1].k # "dict"
             THEN [raised |-> TRUE, out |-> <<>>]
             ELSE extract_jsonld_walk(stack, n - 1,
                                      Append(out, IF IsNone(price) THEN "" ELSE PyStrOf(price)))

\* extract_jsonld(html_bytes) on a page whose JSON-LD chunk parses to the list
\* items: the price strings of the Product nodes.  Both candidates, the chunk
\* and the chunk wrapped in brackets, parse and are walked.
extract_jsonld(items) ==
    LET chunk == extract_jsonld_walk(items, Len(items), <<>>)
    IN  IF chunk.raised THEN chunk ELSE extract_jsonld_walk(items, Len(items), chunk.out)

\* parse_product_from_jsonld(obj) for a Product object: the price it reads
parse_product_from_jsonld(obj) ==
    LET given == obj.offers
        falsy == given.k = "none" \/ (given.k = "list" /\ given.elems = <<>>)
        offers == IF falsy THEN LdOffersDict(PyNone)
                  ELSE IF given.k = "list" THEN given.elems[1]
                  ELSE given
    IN  \* offers.get on a string: AttributeError
        IF offers.k # "dict" THEN [raised |-> TRUE, price |-> PyNone]
        ELSE [raised |-> FALSE,
              price |-> IF Truthy(offers.price) THEN norm_price(PyStr(Strip(PyStrOf(offers.price))))
                        ELSE PyNone]

\* the Product objects collect() finds, and the parse of the first of them
probe_first_product(items) ==
    LET prods == SelectSeq(items, LAMBDA it : it.k = "product")
    IN  IF prods = <<>> THEN [raised |-> FALSE, price |-> PyNone]
        ELSE parse_product_from_jsonld(prods[1])

RECURSIVE scr_price_from_offers_list(_, _, _)
\* _price_from_offers on a list: read_offer(o) of every element, the lowest
\* price kept; o.get on an element that is no object raises AttributeError
scr_price_from_offers_list(elems, i, best) ==
    IF i > Len(elems) THEN [raised |-> FALSE, price |-> best]
    ELSE IF elems[i].k # "dict" THEN [raised |-> TRUE, price |-> PyNone]
    ELSE LET p == money_to_float(elems[i].price)
         IN  scr_price_from_offers_list(elems, i + 1,
                 IF ~IsNone(p) /\ (IsNone(best) \/ p.n < best.n) THEN p ELSE best)

\* _price_from_offers(offers)
scr_price_from_offers(offers) ==
    IF offers.k = "dict" THEN [raised |-> FALSE, price |-> money_to_float(offers.price)]
    ELSE IF offers.k = "list" THEN scr_price_from_offers_list(offers.elems, 1, PyNone)
    ELSE [raised |-> FALSE, price |-> PyNone]

\* _price_from_ld_block(block) for an object
scr_price_from_ld_block(block) ==
    IF block.k # "product" THEN [raised |-> FALSE, price |-> PyNone]
    ELSE LET r == scr_price_from_offers(block.offers)
         IN  IF r.raised \/ ~IsNone(r.price) THEN r
             ELSE [raised |-> FALSE, price |-> money_to_float(block.price)]

RECURSIVE extract_price_from_structured(_, _)
\* extract_price_from_structured(struct): the JSON-LD loop over struct["json-ld"]
\* from item i on; b.get on an item that is no object raises AttributeError
extract_price_from_structured(items, i) ==
    IF i > Len(items) THEN [raised |-> FALSE, price |-> PyNone]
    ELSE IF items[i].k = "str" THEN [raised |-> TRUE, price |-> PyNone]
    ELSE LET r == scr_price_from_ld_block(items[i])
         IN  IF r.raised \/ ~IsNone(r.price) THEN r
             ELSE extract_price_from_structured(items, i + 1)

\* the caller picks the JSON-LD items of the fetched page
ExtractPick ==
    /\ prog = "extract" /\ fn_pc = "ready"
    /\ \E items \in SeqsUpTo(LdItems, MaxLdItems) : fn_in' = items
    /\ fn_pc' = "picked"
    /\ UNCHANGED <<prog, env, fn_out>>
    /\ UNCHANGED notFn

\* each extractor on the items
ExtractApply ==
    /\ prog = "extract" /\ fn_pc = "picked"
    /\ fn_out' = [extract_jsonld |-> extract_jsonld(fn_in),
                  parse_product_from_jsonld |-> probe_first_product(fn_in),
                  extract_price_from_structured |-> extract_price_from_structured(fn_in, 1)]
    /\ fn_pc' = "done"
    /\ UNCHANGED <<prog, env, fn_in>>
    /\ UNCHANGED notFn

ExtractNext == ExtractPick \/ ExtractApply

----------------------------------------------------------------------------
(* The storefront product API extractors: try_shopify_json of               *)
(* competitor_price_scrape.py and competitor_price_scrape_multi.py,         *)
(* fetch_sportsbasement_shopify_js of                                       *)
(* competitor_price_via_serpapi_webscrape.py, on the "variants" of the      *)
(* product payload.                                                        *)

MaxVariants == 2

\* the "price" of a variant: integer cents, a decimal string, a float, or null
VariantPrices ==
    {PyInt(129900), PyInt(69999), PyStr("699.99"), PyStr("1299.00"), PyNum(69999), PyNone}

\* the product's own "price"
TopPrices == {PyNone, PyStr("1,299")}

RECURSIVE MinOf(_)
\* min(prices) of a non-empty list of floats
MinOf(prices) ==
    IF Len(prices) = 1 THEN prices[1]
    ELSE LET rest == MinOf(Tail(prices))
         IN  IF rest < prices[1] THEN rest ELSE prices[1]

RECURSIVE shopify_variant_prices(_)
\* the `for v in prod.get("variants", [])` loop of both try_shopify_json: fv is
\* money_to_float(p), and p / 100 when that is None and p is an int
shopify_variant_prices(variants) ==
    IF variants = <<>> THEN <<>>
    ELSE LET p == Head(variants)
             fv == money_to_float(p)
             fv2 == IF IsNone(fv) /\ p.t = "int" THEN PyNum(p.n) ELSE fv
         IN  (IF IsNone(fv2) THEN <<>> ELSE <<fv2.n>>) \o shopify_variant_prices(Tail(variants))

\* try_shopify_json(url) of competitor_price_scrape.py on the fetched product:
\* the price it returns
scr_try_shopify_json(variants, top) ==
    LET prices == shopify_variant_prices(variants)
        fv == money_to_float(top)
    IN  IF prices # <<>> THEN PyNum(MinOf(prices))
        ELSE IF Truthy(fv) THEN fv
        ELSE PyNone

\* try_shopify_json(url) of competitor_price_scrape_multi.py
multi_try_shopify_json(variants, top) ==
    LET prices == shopify_variant_prices(variants)
    IN  IF prices # <<>> THEN PyNum(MinOf(prices)) ELSE money_to_float(top)

\* int(price) of a variant price: an int as it is, a float truncated, a string
\* of digits parsed; -1 stands for the ValueError of any other string
shopify_js_int(price) ==
    IF price.t = "int" THEN price.n
    ELSE IF price.t = "num" THEN price.n \div 100
    ELSE IF Strip(price.s) # "" /\ AllDigits(Strip(price.s)) THEN DigitsVal(Strip(price.s))
    ELSE -1

\* fetch_sportsbasement_shopify_js(url) on the fetched product: the "price" of
\* each row, f"{int(price)/100:.2f}"; an exception gives the empty list
fetch_sportsbasement_shopify_js(variants) ==
    IF \E i \in 1..Len(variants) : ~IsNone(variants[i]) /\ shopify_js_int(variants[i]) = -1
    THEN <<>>
    ELSE [i \in 1..Len(variants) |->
             IF IsNone(variants[i]) THEN "" ELSE Fmt2(shopify_js_int(variants[i]))]

\* the caller fetches the product payload
ShopifyPick ==
    /\ prog = "shopify" /\ fn_pc = "ready"
    /\ \E variants \in SeqsUpTo(VariantPrices, MaxVariants), top \in TopPrices :
          fn_in' = [variants |-> variants, top |-> top]
    /\ fn_pc' = "picked"
    /\ UNCHANGED <<prog, env, fn_out>>
    /\ UNCHANGED notFn

\* each extractor on the payload
ShopifyApply ==
    /\ prog = "shopify" /\ fn_pc = "picked"
    /\ fn_out' = [scrape |-> scr_try_shopify_json(fn_in.variants, fn_in.top),
                  multi |-> multi_try_shopify_json(fn_in.variants, fn_in.top),
                  webscrape |-> fetch_sportsbasement_shopify_js(fn_in.variants)]
    /\ fn_pc' = "done"
    /\ UNCHANGED <<prog, env, fn_in>>
    /\ UNCHANGED notFn

ShopifyNext == ShopifyPick \/ ShopifyApply

----------------------------------------------------------------------------
(* platform_aware_product_probe.py: the de-duplication of                   *)
(* harvest_structured_products                                              *)

MaxHarvest == 2

\* the order in which harvest_structured_products appends its results
HarvestSources == <<"jsonld", "microdata", "rdfa", "opengraph", "datalayer">>

SourceRank(source) == CHOOSE i \in 1..Len(HarvestSources) : HarvestSources[i] = source

\* ProductInfo values the parsers of one page may give
ProductInfos ==
    [name : {"Edge", "Edge 840"}, gtin : {"0123"}, mpn : {"A1"},
     price : {PyNone, PyNum(69999), PyNum(64999)}, source : {"jsonld", "microdata", "datalayer"}]

\* the list `results` before the de-duplication: JSON-LD results first, the
\* dataLayer ones last
HarvestResults ==
    {r \in SeqsUpTo(ProductInfos, MaxHarvest) :
        \A i \in 1..Len(r) - 1 : SourceRank(r[i].source) <= SourceRank(r[i + 1].source)}

\* (pi.gtin != "", pi.mpn != "", pi.price is not None) as a number that orders
\* the tuples as Python does
harvest_score(pi) ==
    (IF pi.gtin # "" THEN 4 ELSE 0) + (IF pi.mpn # "" THEN 2 ELSE 0) + (IF ~IsNone(pi.price) THEN 1 ELSE 0)

harvest_key(pi) == <<pi.name, pi.gtin, pi.mpn>>

RECURSIVE harvest_uniq(_, _)
\* the de-dup loop: uniq keeps one result per key, in the order the keys came,
\* and a later result replaces it only with a higher score
harvest_uniq(results, uniq) ==
    IF results = <<>> THEN uniq
    ELSE LET pi == Head(results)
             at == {j \in 1..Len(uniq) : harvest_key(uniq[j]) = harvest_key(pi)}
         IN  IF at = {} THEN harvest_uniq(Tail(results), Append(uniq, pi))
             ELSE LET j == CHOOSE k \in at : TRUE
                  IN  IF harvest_score(pi) > harvest_score(uniq[j])
                      THEN harvest_uniq(Tail(results), [uniq EXCEPT ![j] = pi])
                      ELSE harvest_uniq(Tail(results), uniq)

\* the page is parsed into results
HarvestPick ==
    /\ prog = "harvest" /\ fn_pc = "ready"
    /\ \E results \in HarvestResults : fn_in' = results
    /\ fn_pc' = "picked"
    /\ UNCHANGED <<prog, env, fn_out>>
    /\ UNCHANGED notFn

\* harvest_structured_products returns list(uniq.values())
HarvestApply ==
    /\ prog = "harvest" /\ fn_pc = "picked"
    /\ fn_out' = harvest_uniq(fn_in, <<>>)
    /\ fn_pc' = "done"
    /\ UNCHANGED <<prog, env, fn_in>>
    /\ UNCHANGED notFn

HarvestNext == HarvestPick \/ HarvestApply

----------------------------------------------------------------------------
(* normalize_mpn of competitor_price_via_serpapi.py and of                  *)
(* competitor_price_via_serpapi_webscrape.py, applied to two spellings of   *)
(* one part number.                                                         *)

\* part numbers, cut in the three pieces between which separators are written
MpnCores == {<<"010", "02890", "00">>, <<"Ab", "12", "c">>, <<"x", "9", "Z">>}

\* the separators normalize_mpn removes
MpnSeparators == {"", "-", " ", ".", "_", "/"}

\* the spellings of a part number: separators between the pieces, and the
\* letters as they are or in lower case
MpnSpellings(core) ==
    {c \o s1 \o core[2] \o s2 \o core[3] :
        c \in {core[1], Lower(core[1])}, s1 \in MpnSeparators, s2 \in {"", "-", " "}}

\* the caller holds two spellings of one part number
MpnPick ==
    /\ prog = "mpn" /\ fn_pc = "ready"
    /\ \E core \in MpnCores :
         \E a \in MpnSpellings(core), b \in MpnSpellings(core) :
            fn_in' = [core |-> core, a |-> a, b |-> b]
    /\ fn_pc' = "picked"
    /\ UNCHANGED <<prog, env, fn_out>>
    /\ UNCHANGED notFn

\* normalize_mpn on each spelling, and on its own result
MpnApply ==
    /\ prog = "mpn" /\ fn_pc = "picked"
    /\ fn_out' = [a |-> normalize_mpn(fn_in.a), b |-> normalize_mpn(fn_in.b),
                  twice |-> normalize_mpn(normalize_mpn(fn_in.a))]
    /\ fn_pc' = "done"
    /\ UNCHANGED <<prog, env, fn_in>>
    /\ UNCHANGED notFn

MpnNext == MpnPick \/ MpnApply

----------------------------------------------------------------------------
(* api/price_monitor.py: fetch_all_products(), batch_update_shopify() and
   handler.do_GET().  Prices are integer cents; a date is the age of the
   timestamp in whole days at the time of the run, <<>> when the text of the
   first column does not parse with "%Y-%m-%d %H:%M". *)

MaxPages == 2

MaxPageItems == 1

MaxExisting == 2

\* `if len(final_rows) > 1000`: the cap on data rows (1000 in the source,
\* scaled down here so that the bounded inputs reach the cut)
SHEET_ROW_CAP == 3

\* variant['metafield']: None, a metafield with an empty value, one whose value
\* is not the JSON of a money amount, or {"amount": ...}
NoMetafield == [k |-> "none", amount |-> 0]

EmptyMetafield == [k |-> "empty", amount |-> 0]

GarbageMetafield == [k |-> "garbage", amount |-> 0]

MoneyMetafield(cents) == [k |-> "amount", amount |-> cents]

MonVariant(id, price, mf) == [id |-> id, price |-> price, metafield |-> mf]

MonProduct(id, variants) == [id |-> id, variants |-> variants]

\* the products of the shop: one with a variant never seen, one unchanged and
\* one lowered, and one with a variant raised, one whose metafield is
\* unreadable and one whose metafield is empty
MonProducts ==
    { MonProduct("p1", <<MonVariant("v1", 1999, NoMetafield),
                         MonVariant("v2", 1999, MoneyMetafield(1999)),
                         MonVariant("v5", 1500, MoneyMetafield(1999))>>),
      MonProduct("p2", <<MonVariant("v3", 2499, MoneyMetafield(1999)),
                         MonVariant("v4", 500, GarbageMetafield),
                         MonVariant("v6", 1000, EmptyMetafield)>>) }

\* one edge of a page: the node and its cursor
MonEdge(product) == [cursor |-> "cursor-" \o product.id, node |-> product]

\* the edges lists a page can carry
MonEdgeLists ==
    UNION { [1..n -> {MonEdge(p) : p \in MonProducts}] : n \in 0..MaxPageItems }

\* one answer of the shop to the products query: a JSON body with
\* data.products ("data"), a JSON body without it ("nodata"), or no JSON body
\* at all, so that session.post or resp.json raises ("raises")
MonPage(kind, edges, hasNextPage) == [kind |-> kind, edges |-> edges, hasNextPage |-> hasNextPage]

\* the answers that can end a catalog: the last page has no next page
MonLastPages ==
    {MonPage("data", e, FALSE) : e \in MonEdgeLists}
        \cup {MonPage("nodata", <<>>, FALSE), MonPage("raises", <<>>, FALSE)}

\* the answers before the last
MonInnerPages == {MonPage("data", e, TRUE) : e \in MonEdgeLists}

\* the finite catalogs: the answers the shop gives to the successive requests
RECURSIVE MonCatalogsOf(_)
MonCatalogsOf(n) ==
    IF n = 1 THEN {<<p>> : p \in MonLastPages}
    ELSE {<<p>> \o c : p \in MonInnerPages, c \in MonCatalogsOf(n - 1)}

\* [edge['node'] for edge in edges]
MonNodes(edges) == [i \in 1..Len(edges) |-> edges[i].node]

\* fetch_all_products: the while loop from request number i on, with the
\* cursor and the products so far; `sent` collects the cursors requested
\* ("" is None).  edges[-1] of an empty edges list raises IndexError.
RECURSIVE fetch_all_products_from(_, _, _, _, _)
fetch_all_products_from(pages, i, cursor, products, sent) ==
    LET page == pages[i]
        sent2 == Append(sent, cursor)
        got == products \o MonNodes(page.edges)
    IN  IF page.kind = "raises"
        THEN [raised |-> TRUE, products |-> products, sent |-> sent2]
        ELSE IF page.kind = "data"
        THEN IF page.edges = <<>>
             THEN [raised |-> TRUE, products |-> got, sent |-> sent2]
             ELSE IF page.hasNextPage /\ i < Len(pages)
             THEN fetch_all_products_from(pages, i + 1, page.edges[Len(page.edges)].cursor, got, sent2)
             ELSE [raised |-> FALSE, products |-> got, sent |-> sent2]
        ELSE [raised |-> FALSE, products |-> products, sent |-> sent2]

\* fetch_all_products(session) against a shop that serves `pages`
fetch_all_products(pages) == fetch_all_products_from(pages, 1, "", <<>>, <<>>)

\* do_GET: the variants of the products, in the order of the two for loops
RECURSIVE MonVariantsOf(_)
MonVariantsOf(products) ==
    IF products = <<>> THEN <<>>
    ELSE products[1].variants \o MonVariantsOf(Tail(products))

\* do_GET: has_history, i.e. the metafield is there, its value is not empty and
\* json.loads and float accept it
has_history(variant) == variant.metafield.k = "amount"

\* do_GET: last_price
last_price(variant) == IF has_history(variant) THEN variant.metafield.amount ELSE 0

\* one row of sheet_rows; the date is now
MonSheetRow(variant) ==
    [date |-> <<0>>, sku |-> variant.id, last_price |-> last_price(variant),
     current_price |-> variant.price]

\* one entry of shopify_updates
MonUpdate(variant) == [ownerId |-> variant.id, amount |-> variant.price]

\* the comparison without the has_history test
mon_rows_of_always(variant) ==
    IF variant.price # last_price(variant) THEN <<MonSheetRow(variant)>> ELSE <<>>

\* do_GET: the rows the comparison appends to sheet_rows for one variant
mon_rows_of(variant) ==
    IF ~has_history(variant) THEN <<>>
    ELSE IF variant.price # last_price(variant) THEN <<MonSheetRow(variant)>>
    ELSE <<>>

\* do_GET: the entries the comparison appends to shopify_updates for one variant
mon_updates_of(variant) ==
    IF ~has_history(variant) THEN <<MonUpdate(variant)>>
    ELSE IF variant.price # last_price(variant) THEN <<MonUpdate(variant)>>
    ELSE <<>>

\* do_GET: sheet_rows after the comparison loop over `variants`
RECURSIVE mon_compare_rows(_)
mon_compare_rows(variants) ==
    IF variants = <<>> THEN <<>>
    ELSE mon_rows_of(variants[1]) \o mon_compare_rows(Tail(variants))

\* do_GET: shopify_updates after the comparison loop over `variants`
RECURSIVE mon_compare_updates(_)
mon_compare_updates(variants) ==
    IF variants = <<>> THEN <<>>
    ELSE mon_updates_of(variants[1]) \o mon_compare_updates(Tail(variants))

\* the header do_GET writes when the sheet gave none
MON_DEFAULT_HEADER == "Date,Product,Variant,SKU,Old Price,New Price,Direction,Admin Link,Website Link"

\* a worksheet: its first line and the lines below it; a sheet without any
\* value has neither
MonSheetOf(header, rows) == [header |-> header, rows |-> rows]

EmptySheet == MonSheetOf(<<>>, <<>>)

\* a row the log holds from an earlier run: written `age` days ago, or with a
\* first column that is no timestamp
MonOldRow(date, sku) == [date |-> date, sku |-> sku, last_price |-> 1000, current_price |-> 1100]

MonExistingRows ==
    {MonOldRow(<<7>>, "week-old"), MonOldRow(<<8>>, "stale"), MonOldRow(<<>>, "undated")}

\* the contents the worksheet can have when the run starts
MonSheets ==
    {EmptySheet}
        \cup {MonSheetOf(<<MON_DEFAULT_HEADER>>, rows) :
                rows \in UNION {[1..n -> MonExistingRows] : n \in 0..MaxExisting}}

\* do_GET: the 7 day filter; a row whose date does not parse is kept
RECURSIVE mon_prune(_)
mon_prune(rows) ==
    IF rows = <<>> THEN <<>>
    ELSE (IF rows[1].date = <<>> \/ rows[1].date[1] <= 7 THEN <<rows[1]>> ELSE <<>>)
            \o mon_prune(Tail(rows))

\* do_GET: final_rows[:1000]
mon_cap(rows) == IF Len(rows) > SHEET_ROW_CAP THEN SubSeq(rows, 1, SHEET_ROW_CAP) ELSE rows

\* final_rows with the existing rows put first
mon_final_rows_existing_first(sheet_rows, existing_data) == mon_cap(mon_prune(existing_data \o sheet_rows))

\* do_GET: final_rows, from combined_rows = sheet_rows + existing_data
mon_final_rows(sheet_rows, existing_data) == mon_cap(mon_prune(sheet_rows \o existing_data))

MonResponse(status, headers_ended) == [status |-> status, headers_ended |-> headers_ended]

\* `except Exception`: send_response(500) and the body, without end_headers
MonError == MonResponse(500, FALSE)

NoMonFetch == [pages |-> <<>>, raised |-> FALSE, products |-> <<>>, sent |-> <<>>]

MonInit ==
    /\ mon_pc = "start"
    /\ mon_fetch = NoMonFetch
    /\ mon_sheet_rows = <<>>
    /\ mon_updates = <<>>
    /\ mon_sheet = [before |-> EmptySheet, read |-> "none", now |-> EmptySheet]
    /\ mon_trace = <<>>
    /\ mon_response = <<>>

\* do_GET: fetch_all_products and the comparison loop; an exception of the
\* fetch goes to `except Exception`
MonFetchCompare ==
    /\ prog = "mon" /\ mon_pc = "start"
    /\ \E n \in 1..MaxPages : \E pages \in MonCatalogsOf(n) :
        LET r == fetch_all_products(pages)
            variants == MonVariantsOf(r.products)
        IN  /\ mon_fetch' = [pages |-> pages, raised |-> r.raised, products |-> r.products, sent |-> r.sent]
            /\ IF r.raised
               THEN /\ mon_pc' = "done"
                    /\ mon_response' = Append(mon_response, MonError)
                    /\ UNCHANGED <<mon_sheet_rows, mon_updates>>
               ELSE /\ mon_pc' = "compared"
                    /\ mon_sheet_rows' = mon_compare_rows(variants)
                    /\ mon_updates' = mon_compare_updates(variants)
                    /\ UNCHANGED mon_response
    /\ UNCHANGED <<prog, env, mon_sheet, mon_trace>>
    /\ UNCHANGED notMon

\* do_GET: `if sheet_rows:` open the worksheet, read it (a failure of the read
\* is caught and the sheet taken as empty), prune, clear, update, and
\* send_slack_alert, which posts when SLACK_WEBHOOK_URL is set and never raises
MonSheet ==
    /\ prog = "mon" /\ mon_pc = "compared"
    /\ IF mon_sheet_rows = <<>>
       THEN /\ mon_pc' = "sheet_done"
            /\ UNCHANGED <<mon_sheet, mon_trace, mon_response>>
       ELSE \E before \in MonSheets, open \in {"ok", "raises"}, read \in {"ok", "raises"},
               write \in {"ok", "clear_raises", "update_raises"}, slack \in BOOLEAN :
            LET existing_data == IF read = "ok" THEN before.rows ELSE <<>>
                header == IF read = "ok" /\ before.header # <<>>
                          THEN before.header ELSE <<MON_DEFAULT_HEADER>>
                final_rows == mon_final_rows(mon_sheet_rows, existing_data)
            IN  IF open = "raises"
                THEN /\ mon_sheet' = [before |-> before, read |-> "none", now |-> before]
                     /\ mon_pc' = "done"
                     /\ mon_response' = Append(mon_response, MonError)
                     /\ UNCHANGED mon_trace
                ELSE IF write = "clear_raises"
                THEN /\ mon_sheet' = [before |-> before, read |-> read, now |-> before]
                     /\ mon_pc' = "done"
                     /\ mon_response' = Append(mon_response, MonError)
                     /\ mon_trace' = Append(mon_trace, "read")
                ELSE IF write = "update_raises"
                THEN /\ mon_sheet' = [before |-> before, read |-> read, now |-> EmptySheet]
                     /\ mon_pc' = "done"
                     /\ mon_response' = Append(mon_response, MonError)
                     /\ mon_trace' = mon_trace \o <<"read", "clear">>
                ELSE /\ mon_sheet' = [before |-> before, read |-> read,
                                      now |-> MonSheetOf(header, final_rows)]
                     /\ mon_pc' = "sheet_done"
                     /\ mon_trace' = mon_trace \o <<"read", "clear", "update">>
                                        \o (IF slack THEN <<"slack">> ELSE <<>>)
                     /\ UNCHANGED mon_response
    /\ UNCHANGED <<prog, env, mon_fetch, mon_sheet_rows, mon_updates>>
    /\ UNCHANGED notMon

\* do_GET: `if shopify_updates:` batch_update_shopify, whose post may raise,
\* then the 200 response
MonSync ==
    /\ prog = "mon" /\ mon_pc = "sheet_done"
    /\ \E posted \in (IF mon_updates = <<>> THEN {"none"} ELSE {"ok", "raises"}) :
        /\ mon_trace' = IF posted = "ok" THEN Append(mon_trace, "metafieldsSet") ELSE mon_trace
        /\ mon_response' = Append(mon_response,
                                  IF posted = "raises" THEN MonError ELSE MonResponse(200, TRUE))
    /\ mon_pc' = "done"
    /\ UNCHANGED <<prog, env, mon_fetch, mon_sheet_rows, mon_updates, mon_sheet>>
    /\ UNCHANGED notMon

MonNext == MonFetchCompare \/ MonSheet \/ MonSync

----------------------------------------------------------------------------
(* api/unfulfilled.py: handler.do_GET().  An order is its name; the row built
   from an order is the order's name. *)

UnfOrders == {"#1001", "#1002", "#1003"}

UNF_HEADER == "Order Number,Admin URL,Order Date,Customer Name,Customer Email,Payment Status,Fulfillment Status,Sales Channel,Assigned Location,Staff (API),Staff Email,Order Tags,Order Total"

\* the worksheet as an earlier run left it
UnfOldSheet == <<UNF_HEADER, "#0998", "#0999">>

\* one edge of a page: the node and its cursor
UnfEdge(order) == [cursor |-> "cursor-" \o order, node |-> order]

UnfEdgeLists ==
    UNION { [1..n -> {UnfEdge(o) : o \in UnfOrders}] : n \in 0..MaxPageItems }

\* one answer of the shop to the orders query: a payload with data.orders
\* ("data"), a payload with "errors", or an HTTP failure, on which
\* session.post or raise_for_status raises ("raises")
UnfPage(kind, edges, hasNextPage) == [kind |-> kind, edges |-> edges, hasNextPage |-> hasNextPage]

UnfLastPages ==
    {UnfPage("data", e, FALSE) : e \in UnfEdgeLists}
        \cup {UnfPage("errors", <<>>, FALSE), UnfPage("raises", <<>>, FALSE)}

UnfInnerPages == {UnfPage("data", e, TRUE) : e \in UnfEdgeLists}

RECURSIVE UnfCatalogsOf(_)
UnfCatalogsOf(n) ==
    IF n = 1 THEN {<<p>> : p \in UnfLastPages}
    ELSE {<<p>> \o c : p \in UnfInnerPages, c \in UnfCatalogsOf(n - 1)}

\* the rows the for loop over `edges` appends to all_rows
UnfRowsOf(edges) == [i \in 1..Len(edges) |-> edges[i].node]

\* do_GET: the `while True` loop from request number i on, with `after`
\* ("" is None) and all_rows so far; `how` tells the way the loop was left
RECURSIVE unf_fetch_from(_, _, _, _, _)
unf_fetch_from(pages, i, after, all_rows, sent) ==
    LET page == pages[i]
        sent2 == Append(sent, after)
        rows == all_rows \o UnfRowsOf(page.edges)
    IN  IF page.kind = "raises"
        THEN [how |-> "raised", all_rows |-> all_rows, sent |-> sent2]
        ELSE IF page.kind = "errors"
        THEN [how |-> "errors", all_rows |-> all_rows, sent |-> sent2]
        ELSE IF page.edges = <<>>
        THEN [how |-> "no_edges", all_rows |-> all_rows, sent |-> sent2]
        ELSE IF page.hasNextPage /\ i < Len(pages)
        THEN unf_fetch_from(pages, i + 1, page.edges[Len(page.edges)].cursor, rows, sent2)
        ELSE [how |-> "finished", all_rows |-> rows, sent |-> sent2]

NoUnfFetch == [pages |-> <<>>, how |-> "", sent |-> <<>>]

UnfInit ==
    /\ unf_pc = "start"
    /\ unf_fetch = NoUnfFetch
    /\ unf_rows = <<>>
    /\ unf_sheet = UnfOldSheet
    /\ unf_trace = <<>>
    /\ unf_response = <<>>

\* do_GET step 1 and 2: the paging loop; an exception goes to `except
\* Exception`, which answers 500; every `break` goes on to the sheet
UnfFetch ==
    /\ prog = "unf" /\ unf_pc = "start"
    /\ \E n \in 1..MaxPages : \E pages \in UnfCatalogsOf(n) :
        LET r == unf_fetch_from(pages, 1, "", <<>>, <<>>)
        IN  /\ unf_fetch' = [pages |-> pages, how |-> r.how, sent |-> r.sent]
            /\ unf_rows' = r.all_rows
            /\ IF r.how = "raised"
               THEN /\ unf_pc' = "done"
                    /\ unf_response' = Append(unf_response, 500)
               ELSE /\ unf_pc' = "fetched"
                    /\ UNCHANGED unf_response
    /\ UNCHANGED <<prog, env, unf_sheet, unf_trace>>
    /\ UNCHANGED notUnf

\* do_GET step 3 and 4: get_google_sheet, clear, update and the 200 response;
\* each of the three calls may raise
UnfWrite ==
    /\ prog = "unf" /\ unf_pc = "fetched"
    /\ \E o \in {"ok", "open_raises", "clear_raises", "update_raises"} :
        /\ unf_sheet' = IF o = "ok" THEN <<UNF_HEADER>> \o unf_rows
                        ELSE IF o = "update_raises" THEN <<>>
                        ELSE unf_sheet
        /\ unf_trace' = IF o = "ok" THEN unf_trace \o <<"clear", "update">>
                        ELSE IF o = "update_raises" THEN Append(unf_trace, "clear")
                        ELSE unf_trace
        /\ unf_response' = Append(unf_response, IF o = "ok" THEN 200 ELSE 500)
    /\ unf_pc' = "done"
    /\ UNCHANGED <<prog, env, unf_fetch, unf_rows>>
    /\ UNCHANGED notUnf

UnfNext == UnfFetch \/ UnfWrite

----------------------------------------------------------------------------
(* competitor_price_scrape_multi.py: the selection loops of process() *)

MaxDomains == 2

MaxCands == 2

\* COMPETITOR_DOMAINS, in the order process() walks them
multi_COMPETITOR_DOMAINS ==
    <<"www.backcountry.com", "www.excelsports.com", "mikesbikes.com",
      "www.performancebike.com", "www.competitivecyclist.com">>

\* what validate_and_price can return for a candidate page: prices in cents
\* with the confidence of the path taken, or no price
MultiOutcomes ==
    { MultiResult(PyNum(40000), "schema", 3), MultiResult(PyNum(42000), "shopify_json", 3),
      MultiResult(PyNum(39000), "regex", 0), MultiResult(PyNone, "no_price", -1) }

\* a candidate of a domain together with what validate_and_price returns for it
MultiCand(dom, k, res) ==
    [domain |-> dom, url |-> "https://" \o dom \o "/p/" \o k, price |-> res.price,
     matched_by |-> res.matched_by, conf |-> res.conf]

\* the candidate lists candidates_for_domain can give for domain number d
MultiCandLists(d) ==
    UNION { [1..n -> {MultiCand(multi_COMPETITOR_DOMAINS[d], k, res) :
                        k \in {"a"}, res \in MultiOutcomes}] : n \in 0..MaxCands }

\* the candidate lists of the first n domains
RECURSIVE MultiDomainLists(_)
MultiDomainLists(n) ==
    IF n = 0 THEN {<<>>}
    ELSE {Append(doms, cands) : doms \in MultiDomainLists(n - 1), cands \in MultiCandLists(n)}

\* overall_best and best_for_dom before any candidate: (None, None, None, None, -9999)
NoMultiBest == [domain |-> "", url |-> "", price |-> PyNone, matched_by |-> "", conf |-> -9999]

\* the test of process() with the tie broken by the higher price
multi_prefers_dearer(c, best) ==
    c.conf > best.conf \/ (c.conf = best.conf /\ (IsNone(best.price) \/ c.price.n > best.price.n))

\* process(): `conf > best[4] or (conf == best[4] and (best[2] is None or price < best[2]))`
multi_prefers(c, best) ==
    c.conf > best.conf \/ (c.conf = best.conf /\ (IsNone(best.price) \/ c.price.n < best.price.n))

\* process(): best_for_dom after `for c in cands`, from candidate i on
RECURSIVE multi_best_for_dom(_, _, _)
multi_best_for_dom(cands, i, best) ==
    IF i > Len(cands) THEN best
    ELSE multi_best_for_dom(cands, i + 1,
            IF ~IsNone(cands[i].price) /\ multi_prefers(cands[i], best) THEN cands[i] ELSE best)

\* process(): overall_best after `for dom in COMPETITOR_DOMAINS`, from domain
\* d on; a domain without candidates is skipped
RECURSIVE multi_overall_best(_, _, _)
multi_overall_best(doms, d, overall) ==
    IF d > Len(doms) THEN overall
    ELSE LET best_for_dom == multi_best_for_dom(doms[d], 1, NoMultiBest)
         IN  multi_overall_best(doms, d + 1,
                IF doms[d] # <<>> /\ ~IsNone(best_for_dom.price) /\ multi_prefers(best_for_dom, overall)
                THEN best_for_dom ELSE overall)

\* a sequence in the opposite order
Reversed(s) == [i \in 1..Len(s) |-> s[Len(s) + 1 - i]]

\* the candidates of each domain are found
MultiSelPick ==
    /\ prog = "multisel" /\ fn_pc = "ready"
    /\ \E doms \in MultiDomainLists(MaxDomains) : fn_in' = doms
    /\ fn_pc' = "picked"
    /\ UNCHANGED <<prog, env, fn_out>>
    /\ UNCHANGED notFn

\* process() selects over the domains in their order, and over the same
\* domains and candidates walked in the opposite order
MultiSelApply ==
    /\ prog = "multisel" /\ fn_pc = "picked"
    /\ fn_out' = [best |-> multi_overall_best(fn_in, 1, NoMultiBest),
                  reversed |-> multi_overall_best(Reversed([d \in 1..Len(fn_in) |-> Reversed(fn_in[d])]),
                                                  1, NoMultiBest)]
    /\ fn_pc' = "done"
    /\ UNCHANGED <<prog, env, fn_in>>
    /\ UNCHANGED notFn

MultiSelNext == MultiSelPick \/ MultiSelApply

----------------------------------------------------------------------------
(* Specifications: each starts the programs its name says *)

\* every credential is set
EnvSet == [SERPAPI_KEY |-> TRUE, GOOGLE_CREDENTIALS |-> TRUE]

ProgramsInit ==
    SerpInit /\ ScrapeInit /\ PwInit /\ WebInit /\ OffersInit /\ MonInit /\ UnfInit /\ FnInit

AllInit == env = EnvSet /\ ProgramsInit

InitSerp == prog = "serp" /\ AllInit

SpecSerp == InitSerp /\ [][SerpNext]_vars

InitPw == prog = "pw" /\ AllInit

SpecPw == InitPw /\ [][PwNext]_vars

InitIdentity ==
    /\ prog = "identity"
    /\ AllInit

SpecIdentity == InitIdentity /\ [][IdentityNext]_vars

InitPlausible == prog = "plausible" /\ AllInit

SpecPlausible == InitPlausible /\ [][PlausibleNext]_vars

InitSelect == prog = "select" /\ AllInit

SpecSelect == InitSelect /\ [][SelectNext]_vars

InitWeb == prog = "web" /\ AllInit

SpecWeb == InitWeb /\ [][WebNext]_vars

InitTiers == prog \in {"serp", "scrape"} /\ AllInit

NextTiers == SerpNext \/ ScrapeNext

SpecTiers == InitTiers /\ [][NextTiers]_vars

InitGate == prog \in {"web", "offers", "immersive"} /\ AllInit

NextGate == WebNext \/ OffersNext \/ ImmersiveNext

SpecGate == InitGate /\ [][NextGate]_vars

InitMinimum == prog \in {"serp", "offers"} /\ AllInit

\* Price Watch under every environment
InitSystemic ==
    /\ prog = "pw"
    /\ env \in [SERPAPI_KEY : BOOLEAN, GOOGLE_CREDENTIALS : BOOLEAN]
    /\ ProgramsInit

SpecSystemic == InitSystemic /\ [][PwNext]_vars

NextMinimum == SerpNext \/ OffersNext

SpecMinimum == InitMinimum /\ [][NextMinimum]_vars


InitMoney == prog = "money" /\ AllInit

SpecMoney == InitMoney /\ [][MoneyNext]_vars

InitExtract == prog = "extract" /\ AllInit

SpecExtract == InitExtract /\ [][ExtractNext]_vars

InitShopify == prog = "shopify" /\ AllInit

SpecShopify == InitShopify /\ [][ShopifyNext]_vars

\* the two de-duplications
InitDedup == prog \in {"immersive", "harvest"} /\ AllInit

NextDedup == ImmersiveNext \/ HarvestNext

SpecDedup == InitDedup /\ [][NextDedup]_vars

InitMpn == prog = "mpn" /\ AllInit

SpecMpn == InitMpn /\ [][MpnNext]_vars

InitMon == prog = "mon" /\ AllInit

SpecMon == InitMon /\ [][MonNext]_vars

InitUnf == prog = "unf" /\ AllInit

SpecUnf == InitUnf /\ [][UnfNext]_vars

InitMultiSel == prog = "multisel" /\ AllInit

SpecMultiSel == InitMultiSel /\ [][MultiSelNext]_vars

----------------------------------------------------------------------------
(* Properties *)

Last(seq) == seq[Len(seq)]

\* the query events of a trace, in order
QueryEvents(trace) == SelectSeq(trace, LAMBDA e : e.ev = "query")

\* a hit that passes the three gates of best_valid_hit as they are written down:
\* the merchant host of the link is an allowed domain, the title identifies the
\* product, the price is reasonable
ValidHit(row, h) ==
    /\ Lower(Netloc(h.link)) \in serp_ALLOWED_DOMAINS
    /\ title_matches(row, h.title)
    /\ serp_reasonable_price(row, h.price)

SerpLastHadValidHit ==
    /\ prog = "serp" /\ serp_trace # <<>> /\ Last(serp_trace).ev = "query"
    /\ ~serp_last.raised
    /\ \E h \in Range(extract_hits(serp_last.items)) : ValidHit(serp_row, h)

\* C1: tier short-circuit.  When the answer to a query of some tier carries a
\* valid match, try_queries returns a match tagged with that tier (and so sends
\* nothing further); in particular a valid match for the GTIN query gives
\* matched_by = GTIN.
C1_TierShortCircuit ==
    SerpLastHadValidHit =>
        /\ serp_pc = "returned"
        /\ serp_ret.hit # <<>>
        /\ serp_ret.match_by = Last(serp_trace).tier

\* the specificity rank the specification gives to a tier: GTIN, Brand+MPN, MPN
\* alone, Brand+Name (and the name-only query of best_attempt_for_domain last)
SpecRank(tier) ==
    CASE tier \in {"GTIN", "gtin"} -> 1
      [] tier \in {"Brand+MPN", "brand+mpn"} -> 2
      [] tier \in {"MPN", "mpn"} -> 3
      [] tier \in {"Brand+Name", "brand+name"} -> 4
      [] OTHER -> 5

\* the order best_attempt_for_domain documents: GTIN, MPN, Brand+MPN, Brand+Name, Name
ScrapeRank(tag) ==
    CASE tag = "gtin" -> 1
      [] tag = "mpn" -> 2
      [] tag = "brand+mpn" -> 3
      [] tag = "brand+name" -> 4
      [] OTHER -> 5

SerpTiers == <<"GTIN", "Brand+MPN", "MPN", "Brand+Name">>

\* the queries of a tier that apply to a row, by the rules of try_queries
SerpApplicable(row, tier) ==
    LET gtin == Strip(row.GTIN)
        mpn == Strip(row.MPN)
        brand == Strip(row.Brand)
        kw == CleanName(Strip(row.Product_Name))
        vs == {Strip(v) : v \in Range(MpnQueryVariants(mpn))} \ {""}
    IN  CASE tier = "GTIN" -> IF gtin # "" THEN {serp_query(gtin)} ELSE {}
          [] tier = "Brand+MPN" ->
                IF brand # "" /\ mpn # "" THEN {serp_query(brand \o " " \o v) : v \in vs} ELSE {}
          [] tier = "MPN" -> IF mpn # "" THEN {serp_query(v) : v \in vs} ELSE {}
          [] OTHER -> IF brand # "" /\ kw # "" THEN {serp_query(brand \o " " \o kw)} ELSE {}

\* C2 as stated: within one target the queries go out in the order GTIN,
\* Brand+MPN, MPN alone, Brand+Name, in try_queries and in best_attempt_for_domain
C2_SpecificityOrder ==
    /\ prog = "serp" =>
          LET qs == QueryEvents(serp_trace)
          IN  \A i, j \in 1..Len(qs) : i < j => SpecRank(qs[i].tier) <= SpecRank(qs[j].tier)
    /\ prog = "scrape" =>
          LET qs == QueryEvents(scr_trace)
          IN  \A i, j \in 1..Len(qs) : i < j => SpecRank(qs[i].tag) <= SpecRank(qs[j].tag)

\* C2 amended: try_queries sends its queries in the order GTIN, Brand+MPN, MPN,
\* Brand+Name, and a query goes out only after every applicable query of each
\* earlier tier went out; best_attempt_for_domain sends them in the order GTIN,
\* MPN, Brand+MPN, Brand+Name, Name, one after the other as its list holds them.
C2_TierOrderAmended ==
    /\ prog = "serp" =>
          LET qs == QueryEvents(serp_trace)
          IN  /\ \A i, j \in 1..Len(qs) : i < j => SpecRank(qs[i].tier) <= SpecRank(qs[j].tier)
              /\ \A j \in 1..Len(qs) : \A t \in Range(SerpTiers) :
                    SpecRank(t) < SpecRank(qs[j].tier) =>
                        \A q \in SerpApplicable(serp_row, t) : \E i \in 1..(j - 1) : qs[i].q = q /\ qs[i].tier = t
    /\ prog = "scrape" =>
          LET qs == QueryEvents(scr_trace)
          IN  /\ Len(qs) <= Len(scr_queries)
              /\ \A i \in 1..Len(qs) : qs[i].q = scr_queries[i].q /\ qs[i].tag = scr_queries[i].tag
              /\ \A i, j \in 1..Len(scr_queries) :
                    i < j => ScrapeRank(scr_queries[i].tag) < ScrapeRank(scr_queries[j].tag)

\* C2 witness: best_attempt_for_domain has sent the MPN query and, after it,
\* the Brand+MPN query
C2_Witness ==
    /\ prog = "scrape"
    /\ LET qs == QueryEvents(scr_trace)
       IN  \E i, j \in 1..Len(qs) : i < j /\ qs[i].tag = "mpn" /\ qs[j].tag = "brand+mpn"

\* C3: an exception raised while a tier's query is served is caught at that
\* tier; try_queries stays in control and stands at a later tier (or has
\* returned after the last one), so the row is not aborted.
C3_TierExceptionCaught ==
    (prog = "serp" /\ serp_last.raised) =>
        serp_pc \in {"brand_mpn", "mpn", "brand_name", "returned"}

\* C4: a batch in which one row fails still writes what it computed for the
\* other rows: once do_GET is over, every row it processed has its cells in the
\* batch handed to update_cells.
C4_BatchWritesDespiteRowFailure ==
    (prog = "pw" /\ pw_pc = "done") =>
        \A i \in 1..Len(pw_rows_done) :
            pw_rows_done[i] = "processed" =>
                /\ pw_written # <<>>
                /\ \E k \in 1..Len(pw_written[1]) : pw_written[1][k].row = i + 1

\* the source of an offer names neither the own store nor the row's primary
\* competitor (a row without CompetitorA_Name has no primary competitor)
PwOtherSource(item, compA_name) ==
    /\ ~Contains(Lower(MY_STORE_NAME), Lower(item.source))
    /\ compA_name = "" \/ ~Contains(Lower(compA_name), Lower(item.source))

\* the offer's title carries brand and MPN and its price parses
PwMatchingOffer(item, row) ==
    /\ Contains(Lower(row.Brand), Lower(item.title))
    /\ Contains(Lower(row.MPN), Lower(item.title))
    /\ item.price.t = "str"
    /\ ~IsNone(ParseFloat(RemoveChars(item.price.s, "$,")))

\* C9: for a processed row the best-market offer is never from the own store
\* nor from the row's primary competitor, and when some brand+MPN offer of
\* another source with a parseable price is among the results, a best-market
\* offer is returned.
C9_WildcardExcludesSelfAndPrimary ==
    (prog = "pw" /\ pw_last.outcome = "processed") =>
        /\ pw_last.best # <<>> =>
              PwOtherSource(pw_last.best[1], pw_last.row.CompetitorA_Name)
        /\ (\E k \in 1..Len(pw_last.results) :
                /\ PwOtherSource(pw_last.results[k], pw_last.row.CompetitorA_Name)
                /\ PwMatchingOffer(pw_last.results[k], pw_last.row))
              => pw_last.best # <<>>

\* the parts of the identity check as the specification words them
IdHasBrand(row, title) ==
    LET brand == Lower(Strip(row.Brand))
    IN  brand # "" /\ Contains(brand, Lower(title))

IdHasMpn(row, title) ==
    LET mpn == Strip(row.MPN)
        forms == {Lower(mpn), Lower(RemoveChars(mpn, " ")), Lower(RemoveChars(mpn, "-")),
                  Lower(normalize_mpn(mpn))} \ {""}
    IN  \E v \in forms : Contains(v, Lower(title))

\* how many of the first three significant product-name keywords the title holds
IdKeywordHits(row, title) ==
    LET kws == NameKeywords(Lower(Strip(row.Product_Name)))
    IN  Cardinality({i \in 1..Len(kws) : Contains(kws[i], Lower(title))})

IdentityGate(row, title, needed) ==
    \/ IdHasBrand(row, title) /\ (IdHasMpn(row, title) \/ IdKeywordHits(row, title) >= needed)
    \/ Strip(row.Brand) = "" /\ IdHasMpn(row, title)

\* C5 as stated: a title passes the identity check exactly when the brand is in
\* it together with the MPN in a normalized form or at least 2 of the first 3
\* keywords, or the target has no brand and the MPN is in it.
C5_IdentityGate ==
    (prog = "identity" /\ fn_pc = "done") =>
        /\ fn_out.title_matches = IdentityGate(fn_in.row, fn_in.title, 2)
        /\ fn_out.title_ok = IdentityGate(fn_in.row, fn_in.title, 2)
        /\ fn_out.find_offer = IdentityGate(fn_in.row, fn_in.title, 2)

\* C5 amended: title_matches and title_ok pass a title exactly when the brand is
\* in it together with the MPN in a normalized form or at least 1 of the first
\* 3 keywords, or the target has no brand and the MPN is in it; find_offer
\* passes it exactly when brand and MPN are both set and both are in the title
\* (lower-cased, as written).
C5_IdentityGateAmended ==
    (prog = "identity" /\ fn_pc = "done") =>
        /\ fn_out.title_matches = IdentityGate(fn_in.row, fn_in.title, 1)
        /\ fn_out.title_ok = IdentityGate(fn_in.row, fn_in.title, 1)
        /\ fn_out.find_offer =
              (/\ fn_in.row.Brand # "" /\ fn_in.row.MPN # ""
               /\ Contains(Lower(fn_in.row.Brand), Lower(fn_in.title))
               /\ Contains(Lower(fn_in.row.MPN), Lower(fn_in.title)))

\* C5 witness: a title with the brand and exactly one of the keywords, and no
\* MPN, was passed by title_matches and title_ok and refused by find_offer
C5_Witness ==
    /\ prog = "identity" /\ fn_pc = "done"
    /\ IdHasBrand(fn_in.row, fn_in.title)
    /\ ~IdHasMpn(fn_in.row, fn_in.title)
    /\ fn_in.row.MPN # ""
    /\ IdKeywordHits(fn_in.row, fn_in.title) = 1
    /\ fn_out.title_matches /\ fn_out.title_ok /\ ~fn_out.find_offer

\* the candidate price of the page is below 1/4 of the reference price and
\* below the absolute floor of 40
PlBelowFloor ==
    /\ ~IsNone(fn_in.my_price) /\ fn_in.my_price.n > 0
    /\ ~IsNone(fn_in.page.price)
    /\ 4 * fn_in.page.price.n < fn_in.my_price.n
    /\ fn_in.page.price.n < 4000

\* the page is fetched and read, and the extractor that holds the price is run
PlPriceRead ==
    /\ fn_in.page.status = "ok" /\ ~fn_in.page.category
    /\ IF fn_in.page.shopify THEN fn_in.page.origin = "shopify_json"
       ELSE fn_in.page.origin \in {"schema", "regex"}

\* C6 as stated: a candidate priced below 1/4 of the reference price and below
\* 40 is rejected outright, whatever its identity evidence or extractor:
\* validate_and_price returns no price for it and reasonable_price refuses it.
C6_PlausibilityFloor ==
    (prog = "plausible" /\ fn_pc = "done" /\ PlBelowFloor) =>
        /\ IsNone(fn_out.validated.price)
        /\ ~fn_out.reasonable

\* C6 amended: validate_and_price rejects a price below 1/4 of the reference
\* price and below 40 only when the regex fallback found it; found by the
\* Shopify JSON or the schema extractor it is returned with the confidence
\* lowered by 3.  reasonable_price refuses a price exactly when the reference
\* price is at least 300 and the price is below half of it, so with reference
\* price 1300 a candidate priced 20 is refused.
C6_PlausibilityFloorAmended ==
    (prog = "plausible" /\ fn_pc = "done") =>
        /\ (PlBelowFloor /\ PlPriceRead) =>
              IF fn_in.page.origin = "regex"
              THEN IsNone(fn_out.validated.price) /\ fn_out.validated.matched_by = "regex_too_low"
              ELSE /\ fn_out.validated.price = fn_in.page.price
                   /\ fn_out.validated.matched_by = fn_in.page.origin
                   /\ fn_out.validated.conf
                        = (IF fn_in.page.gtin_like THEN 2 ELSE 0) + (IF fn_in.page.mpn_like THEN 1 ELSE 0)
                          + (IF fn_in.page.title_similar THEN 1 ELSE 0) + 2 - 3
        /\ ~IsNone(fn_in.page.price) =>
              (fn_out.reasonable
                  <=> ~(/\ ~IsNone(fn_in.my_price) /\ fn_in.my_price.n >= 30000
                        /\ 2 * fn_in.page.price.n < fn_in.my_price.n))
        /\ (fn_in.my_price = PyNum(130000) /\ fn_in.page.price = PyNum(2000)) => ~fn_out.reasonable

\* C6 witness: reference price 1300, a schema price of 20 was returned
C6_Witness ==
    /\ prog = "plausible" /\ fn_pc = "done"
    /\ fn_in.my_price = PyNum(130000) /\ fn_in.page.price = PyNum(2000)
    /\ PlPriceRead /\ fn_in.page.origin = "schema"
    /\ fn_out.validated.price = PyNum(2000)
    /\ ~fn_out.reasonable

\* the lowest price among the hits
SelMinPrice(hits) == CHOOSE p \in {hits[i].price.n : i \in 1..Len(hits)} :
                        \A i \in 1..Len(hits) : p <= hits[i].price.n

\* C7: when several offers pass all gates, the offer returned is one with the
\* minimum price among them, in any order of the list (500, 420, 610 give 420).
C7_LowestPriceSelected ==
    (/\ prog = "select" /\ fn_pc = "done" /\ fn_in # <<>>
     /\ \A i \in 1..Len(fn_in) : ValidHit(SelRow, fn_in[i])) =>
        /\ fn_out.best_valid_hit # <<>>
        /\ fn_out.best_valid_hit[1].price.n = SelMinPrice(fn_in)
        /\ fn_out.find_offer # <<>>
        /\ ParseFloat(fn_out.find_offer[1].price).n = SelMinPrice(fn_in)

\* the host of a link as the immersive script reads it: lower-cased netloc
\* without a leading "www."
ImmHost(link) ==
    LET nl == Lower(Netloc(link))
    IN  IF StartsWith(nl, "www.") THEN SubSeq(nl, 5, Len(nl)) ELSE nl

\* C8: domain gate.  An offer whose source domain is outside the allowed set is
\* never the match: the link search_and_validate returns has an allowed host;
\* what find_best_competitor_offer returns is one of the fetched offers, with the
\* domain computed for it, and that domain is an allowed one.  For the deny-list
\* variant, offers_from_immersive returns no offer whose domain is a denied
\* domain, and no offer carrying the link of a payload entry on a denied host.
C8_DomainGate ==
    /\ (prog = "web" /\ web_pc = "returned" /\ web_ret # NoWebRet)
       => Lower(Netloc(web_ret.url)) \in web_ALLOWED_DOMAINS
    /\ (prog = "offers" /\ so_pc = "returned"
        /\ (so_ret.domain # "" \/ ~IsNone(so_ret.price) \/ so_ret.url # ""))
       => /\ so_ret.domain \in so_ALLOWED_DOMAINS
          /\ \E i \in 1..Len(so_last.offers) :
                /\ so_last.doms[i] = so_ret.domain
                /\ so_last.offers[i].price = so_ret.price
                /\ so_ret.url = (IF so_last.offers[i].link.t = "str" THEN so_last.offers[i].link.s ELSE "")
    /\ (prog = "immersive" /\ fn_pc = "done")
       => /\ \A i \in 1..Len(fn_out) : fn_out[i].domain \notin DENY_DOMAINS
          /\ \A j \in 1..Len(fn_in) :
                (fn_in[j].link.t = "str" /\ ImmHost(fn_in[j].link.s) \in DENY_DOMAINS)
                => \A i \in 1..Len(fn_out) : fn_out[i].link # fn_in[j].link.s

\* find_best_competitor_offer returned a match although a cheaper priced offer
\* of a domain outside the allowed set was among the fetched ones
C8_Witness ==
    /\ prog = "offers" /\ so_pc = "returned" /\ so_ret.domain # ""
    /\ \E i \in 1..Len(so_last.offers) :
          /\ so_last.doms[i] \notin so_ALLOWED_DOMAINS
          /\ ~IsNone(so_last.offers[i].price)
          /\ so_last.offers[i].price.n < so_ret.price.n

\* the events of a trace that reach an external collaborator
ExternalCalls(trace) == SelectSeq(trace, LAMBDA e : e.ev \in {"query", "fetch"})

\* C10: a target whose GTIN, MPN and product name are all empty is resolved
\* without any external search or fetch call.
C10_NoCallWithoutIdentity ==
    /\ (prog = "serp" /\ serp_row.GTIN = "" /\ serp_row.MPN = "" /\ serp_row.Product_Name = "")
       => ExternalCalls(serp_trace) = <<>>
    /\ (prog = "offers" /\ so_row.GTIN = "" /\ so_row.MPN = "" /\ so_row.Product_Name = "")
       => ExternalCalls(so_trace) = <<>>

\* a target without the minimum identity fields: GTIN, MPN and product name
\* are all empty
IdentityInsufficient(row) ==
    Strip(row.GTIN) = "" /\ Strip(row.MPN) = "" /\ Strip(row.Product_Name) = ""

\* C11: a target that lacks the minimum identity fields gets a status of its
\* own: whenever main() records the result of such a row, the Status it
\* records is neither the NO_MATCH of an unsuccessful search nor an ERROR.
C11_SkippedStatusDistinct ==
    [][(/\ prog = "serp" /\ serp_pc \in {"returned", "raised"}
        /\ Len(serp_out') = Len(serp_out) + 1
        /\ IdentityInsufficient(serp_row))
       => Last(serp_out').Status \notin {"NO_MATCH", "ERROR"}]_vars

\* C12: a systemic failure, a missing credential, is fatal and surfaces an
\* error, and it is the only failure that stops the whole run: do_GET without
\* the sheet credentials answers 500 before any row is taken, do_GET without
\* SERPAPI_KEY answers 500 at the first row it searches for, and a run of
\* do_GET with every variable set is not ended by the error response once it
\* has taken a row.
C12_OnlySystemicFailureIsFatal ==
    prog = "pw"
    => /\ (~env.GOOGLE_CREDENTIALS /\ pw_pc # "start") => pw_response = <<500>> /\ pw_rows_done = <<>>
       /\ (~env.SERPAPI_KEY /\ "processed" \in Range(pw_rows_done)) => FALSE
       /\ (env = EnvSet /\ pw_rows_done # <<>>) => 500 \notin Range(pw_response)

\* the price strings of 1299.00 and the malformed price values
MoneyWellFormed == {PyStr("$1,299.00"), PyStr("1299.00"), PyStr("1,299")}

MoneyMalformed == {PyStr("Call for price"), PyStr(""), PyNone}

\* C13: the money parsers, money_to_float and price_to_float, give 1299.00 for
\* each of "$1,299.00", "1299.00" and "1,299", and None for "Call for price",
\* "" and None.
C13_ParseMoneyResult ==
    (prog = "money" /\ fn_pc = "done")
    => /\ fn_in \in MoneyWellFormed
          => fn_out.money_to_float = PyNum(129900) /\ fn_out.price_to_float = PyNum(129900)
       /\ fn_in \in MoneyMalformed
          => fn_out.money_to_float = PyNone /\ fn_out.price_to_float = PyNone

\* C14: price handling never raises: whatever the price fields of the offers of
\* a search answer hold, neither find_offer call that do_GET makes on the
\* answer for the row raises an exception.
C14_PriceParsingNeverRaises ==
    (prog = "pw" /\ pw_last.outcome # "none")
    => LET row == pw_last.row
       IN  /\ ~find_offer(pw_last.results, PyStr(row.CompetitorA_Name), row.Brand, row.MPN).raised
           /\ ~find_offer(filtered_results(pw_last.results, row.CompetitorA_Name), PyNone,
                          row.Brand, row.MPN).raised

\* C15: Price_Diff is the offer's price minus the target's reference price
\* whenever both are known, and empty otherwise: in each row run() appends,
\* Price_Diff is the matched offer's price minus the row's My_Price when there
\* are both (a competitor at 1,250.00 against a My_Price of 1,300.00 gives
\* -50.00), and "" when one of them is missing.
C15_PriceDiffSign ==
    (prog = "offers" /\ so_pc = "appended")
    => LET my_price == norm_price(PyStr(so_row.My_Price))
           offer_price == so_ret.price
       IN  Last(so_out).Price_Diff = IF IsNone(my_price) \/ IsNone(offer_price) THEN ""
                                     ELSE Fmt2(offer_price.n - my_price.n)

\* C16: matched_by names the tier that produced the match when an offer is
\* matched and is NO_MATCH in every result without a matched offer: in each
\* output row Match_By differs from NO_MATCH if and only if a match price and a
\* match source are recorded.
C16_MatchedByIffMatch ==
    /\ (prog = "offers" /\ so_pc = "appended")
       => LET r == Last(so_out)
          IN  (r.Match_By # "NO_MATCH") <=> (r.Match_Price # "" /\ r.Match_Source # "NO_MATCH")
    /\ prog = "serp"
       => \A i \in 1..Len(serp_out) :
              (serp_out[i].Match_By # "NO_MATCH")
              <=> (serp_out[i].Match_Price # "" /\ serp_out[i].Match_Source # "")

\* C17: the offer extractors never raise on malformed or absent data: whatever
\* the JSON-LD items of the fetched page are (an "offers" value that is a list
\* of non-objects, a string or an empty list, an item that is no object),
\* extract_jsonld, parse_product_from_jsonld and extract_price_from_structured
\* each return a result.
C17_ExtractorsNeverRaise ==
    (prog = "extract" /\ fn_pc = "done")
    => /\ ~fn_out.extract_jsonld.raised
       /\ ~fn_out.parse_product_from_jsonld.raised
       /\ ~fn_out.extract_price_from_structured.raised

\* the lowest of the variant prices given as integer cents, in cents
CentsMin(variants) ==
    CHOOSE c \in {variants[i].n : i \in 1..Len(variants)} :
        \A i \in 1..Len(variants) : c <= variants[i].n

\* C18: a variant price delivered as an integer number of cents is reported in
\* currency units, the integer divided by 100, by every platform extractor:
\* for a product whose variant prices are all integer cents, both
\* try_shopify_json return the lowest of them divided by 100, and
\* fetch_sportsbasement_shopify_js gives each row its price divided by 100.
C18_CentsNormalized ==
    (/\ prog = "shopify" /\ fn_pc = "done"
     /\ fn_in.variants # <<>>
     /\ \A i \in 1..Len(fn_in.variants) : fn_in.variants[i].t = "int")
    => /\ fn_out.scrape = PyNum(CentsMin(fn_in.variants))
       /\ fn_out.multi = PyNum(CentsMin(fn_in.variants))
       /\ fn_out.webscrape = [i \in 1..Len(fn_in.variants) |-> Fmt2(fn_in.variants[i].n)]

\* the (domain, price, link) of the offer an immersive object yields
ImmTriple(obj) ==
    <<_domain(obj.link.s), price_to_float(PyOr(obj.extracted_price, obj.price)), obj.link.s>>

\* the objects of the payload that yield the offer o
ImmOrigins(o) ==
    {j \in 1..Len(fn_in) : Truthy(fn_in[j].link) /\ ImmTriple(fn_in[j]) = <<o.domain, o.price, o.link>>}

\* no two offers of the list returned by offers_from_immersive have the same
\* (domain, price, link)
ImmNoDuplicates ==
    \A i, j \in 1..Len(fn_out) :
        <<fn_out[i].domain, fn_out[i].price, fn_out[i].link>>
            = <<fn_out[j].domain, fn_out[j].price, fn_out[j].link>> => i = j

\* C19, as stated: the pooled results are deduplicated by (source_domain,
\* price, evidence_url): the list handed on never holds two entries with the
\* same triple.  The results of harvest_structured_products all come from the
\* one page fetched, so they share the domain and the URL and the triple
\* differs only by the price.
C19_DedupByTriple ==
    /\ (prog = "immersive" /\ fn_pc = "done") => ImmNoDuplicates
    /\ (prog = "harvest" /\ fn_pc = "done")
       => \A i, j \in 1..Len(fn_out) : fn_out[i].price = fn_out[j].price => i = j

\* C19, amended: offers_from_immersive deduplicates by (domain, price, link)
\* and keeps the first offer collected of each triple;
\* harvest_structured_products deduplicates by (name, gtin, mpn) and keeps, of
\* the results of a key, the first that has a price, or the first of all when
\* none has a price.
C19_DedupAmended ==
    /\ (prog = "immersive" /\ fn_pc = "done")
       => /\ ImmNoDuplicates
          /\ \A i \in 1..Len(fn_out) :
                \E j \in ImmOrigins(fn_out[i]) :
                    /\ \A k \in ImmOrigins(fn_out[i]) : j <= k
                    /\ fn_out[i].seller = fn_in[j].source
    /\ (prog = "harvest" /\ fn_pc = "done")
       => /\ \A i, j \in 1..Len(fn_out) : harvest_key(fn_out[i]) = harvest_key(fn_out[j]) => i = j
          /\ \A i \in 1..Len(fn_out) :
                LET same == {k \in 1..Len(fn_in) : harvest_key(fn_in[k]) = harvest_key(fn_out[i])}
                    priced == {k \in same : ~IsNone(fn_in[k].price)}
                    from == IF priced # {} THEN priced ELSE same
                IN  \E k \in from : (\A m \in from : k <= m) /\ fn_out[i] = fn_in[k]

\* two objects of the payload gave the same triple under different seller
\* names, and one offer was returned for them
C19_Witness ==
    /\ prog = "immersive" /\ fn_pc = "done"
    /\ Len(fn_in) = 2 /\ Len(fn_out) = 1
    /\ fn_in[1].source # fn_in[2].source
    /\ ImmOrigins(fn_out[1]) = {1, 2}

\* C20: between any two consecutive calls of the search API, the successive
\* tier and MPN-variant queries of one row included, the pacing sleep is
\* performed: no query of try_queries follows another query directly.
C20_SleepBetweenQueries ==
    prog = "serp"
    => \A i \in 1..Len(serp_trace) - 1 :
           ~(serp_trace[i].ev = "query" /\ serp_trace[i + 1].ev = "query")

\* C21: normalize_mpn removes whitespace, hyphens, underscores, slashes and
\* dots and upper-cases: two spellings of a part number that differ only in
\* those characters and in letter case give the same output, the part number
\* in upper case without separators, and applying normalize_mpn to its own
\* result changes nothing.
C21_NormalizeMpn ==
    (prog = "mpn" /\ fn_pc = "done")
    => /\ fn_out.a = fn_out.b
       /\ fn_out.a = Upper(fn_in.core[1] \o fn_in.core[2] \o fn_in.core[3])
       /\ fn_out.twice = fn_out.a

\* the spellings "010-02890-00" and "010 02890 00" were normalized
C21_Witness ==
    /\ prog = "mpn" /\ fn_pc = "done"
    /\ fn_in.a = "010-02890-00" /\ fn_in.b = "010 02890 00"
    /\ fn_out.a = "0100289000"

\* the position of the first occurrence of event e in the monitor's trace, 0 if none
MonFirst(e) ==
    IF \E i \in 1..Len(mon_trace) : mon_trace[i] = e
    THEN CHOOSE i \in 1..Len(mon_trace) : mon_trace[i] = e /\ \A j \in 1..(i - 1) : mon_trace[j] # e
    ELSE 0

\* C22: in the price monitor the metafields of changed variants are sent to
\* the shop only after the change rows were written to the sheet, and a run in
\* which reading or writing the sheet raised sends no metafield update
C22_NoPriceChangeLost ==
    prog = "mon" =>
        /\ (MonFirst("metafieldsSet") > 0 /\ mon_sheet_rows # <<>>)
                => (MonFirst("update") > 0 /\ MonFirst("update") < MonFirst("metafieldsSet"))
        /\ (mon_sheet.read = "raises" \/ (mon_response # <<>> /\ mon_response[1].status = 500))
                => MonFirst("metafieldsSet") = 0

\* the variants the monitor compared in this run
MonCompared == MonVariantsOf(mon_fetch.products)

\* how many of the compared variants, sheet rows and queued updates are about variant id
MonOccurrences(id) == Cardinality({i \in 1..Len(MonCompared) : MonCompared[i].id = id})

MonRowsAbout(id) == Cardinality({i \in 1..Len(mon_sheet_rows) : mon_sheet_rows[i].sku = id})

MonUpdatesAbout(id) == Cardinality({i \in 1..Len(mon_updates) : mon_updates[i].ownerId = id})

\* C23: a variant without a readable stored price gets one metafield update
\* and no sheet row, a variant whose price differs from the stored one gets one
\* sheet row and one update, a variant whose price equals it gets neither, and
\* the notification goes out only in runs that added a sheet row
C23_ChangeDetection ==
    (prog = "mon" /\ mon_pc # "start" /\ ~mon_fetch.raised) =>
        /\ \A i \in 1..Len(MonCompared) :
            LET v == MonCompared[i]
                stored == v.metafield.k = "amount"
            IN  /\ MonUpdatesAbout(v.id) =
                    (IF stored /\ v.price = v.metafield.amount THEN 0 ELSE MonOccurrences(v.id))
                /\ MonRowsAbout(v.id) =
                    (IF stored /\ v.price # v.metafield.amount THEN MonOccurrences(v.id) ELSE 0)
        /\ Len(mon_updates) <= Len(MonCompared)
        /\ Len(mon_sheet_rows) <= Len(mon_updates)
        /\ MonFirst("slack") > 0 => mon_sheet_rows # <<>>

\* a finished run that compared a variant never seen, one with an unreadable
\* metafield, one unchanged and one changed, and that sent the notification
C23_Witness ==
    /\ prog = "mon" /\ mon_pc = "done" /\ ~mon_fetch.raised
    /\ \E i, j, k, l \in 1..Len(MonCompared) :
        /\ MonCompared[i].metafield.k = "none"
        /\ MonCompared[j].metafield.k = "garbage"
        /\ MonCompared[k].metafield.k = "amount" /\ MonCompared[k].price = MonCompared[k].metafield.amount
        /\ MonCompared[l].metafield.k = "amount" /\ MonCompared[l].price # MonCompared[l].metafield.amount
    /\ MonFirst("slack") > 0
    /\ Len(mon_sheet_rows) = 2

\* whether the 7 day rule keeps a row: its date does not parse or is at most 7 days old
MonKept(row) == row.date = <<>> \/ row.date[1] <= 7

\* the new rows followed by the rows the sheet held, without the dated rows older than 7 days
MonRetained == SelectSeq(mon_sheet_rows \o mon_sheet.before.rows, MonKept)

\* C24: after a rewrite the data rows of the sheet are the new change rows
\* followed by the rows it held before in their order, without the dated rows
\* older than 7 days, rows with an unreadable date kept, and cut from the end
\* to at most the cap
C24_ChangeLogRetention ==
    (prog = "mon" /\ MonFirst("update") > 0) =>
        /\ Len(mon_sheet.now.rows) <= SHEET_ROW_CAP
        /\ Len(mon_sheet.now.rows) = (IF Len(MonRetained) > SHEET_ROW_CAP THEN SHEET_ROW_CAP ELSE Len(MonRetained))
        /\ mon_sheet.now.rows = SubSeq(MonRetained, 1, Len(mon_sheet.now.rows))

\* C27: a GET handled by price_watch, price_monitor or unfulfilled ends with
\* exactly one complete HTTP response, of status 200 or 500
C27_OneResponsePerGet ==
    /\ (prog = "pw" /\ pw_pc = "done") => (Len(pw_response) = 1 /\ pw_response[1] \in {200, 500})
    /\ (prog = "mon" /\ mon_pc = "done")
            => (Len(mon_response) = 1 /\ mon_response[1].status \in {200, 500}
                    /\ mon_response[1].headers_ended)
    /\ (prog = "unf" /\ unf_pc = "done") => (Len(unf_response) = 1 /\ unf_response[1] \in {200, 500})

\* the items of the first n pages of a catalog, in fetch order
RECURSIVE PagedItems(_, _)
PagedItems(pages, n) ==
    IF n = 0 THEN <<>>
    ELSE PagedItems(pages, n - 1) \o [i \in 1..Len(pages[n].edges) |-> pages[n].edges[i].node]

\* the cursors sent are those of the last items of the pages before, the loop
\* stopped at the first page without a next page, data or items, and no page
\* is requested after it
PagedWell(pages, sent) ==
    /\ sent # <<>> /\ sent[1] = ""
    /\ \A i \in 2..Len(sent) :
        /\ pages[i - 1].kind = "data" /\ pages[i - 1].edges # <<>> /\ pages[i - 1].hasNextPage
        /\ sent[i] = pages[i - 1].edges[Len(pages[i - 1].edges)].cursor
    /\ LET last == pages[Len(sent)]
       IN  last.kind # "data" \/ last.edges = <<>> \/ ~last.hasNextPage

\* C30: over a finite catalog whose answers all arrive, the paging loops of
\* price_monitor and unfulfilled end without raising, ask for each page with
\* the cursor of the last item of the page before, stop at the first page
\* without next page, data or items, and return the items of the fetched pages
\* once each in fetch order
C30_CatalogPaging ==
    /\ (prog = "mon" /\ mon_pc # "start"
            /\ \A i \in 1..Len(mon_fetch.sent) : mon_fetch.pages[i].kind # "raises")
        => /\ ~mon_fetch.raised
           /\ PagedWell(mon_fetch.pages, mon_fetch.sent)
           /\ mon_fetch.products = PagedItems(mon_fetch.pages, Len(mon_fetch.sent))
    /\ (prog = "unf" /\ unf_pc # "start"
            /\ \A i \in 1..Len(unf_fetch.sent) : unf_fetch.pages[i].kind # "raises")
        => /\ unf_fetch.how # "raised"
           /\ PagedWell(unf_fetch.pages, unf_fetch.sent)
           /\ unf_rows = PagedItems(unf_fetch.pages, Len(unf_fetch.sent))

\* C26: when fetching a page of the unfulfilled-orders export failed, by an
\* HTTP error or by a response carrying GraphQL errors, the worksheet is
\* neither cleared nor rewritten and keeps its contents
C26_SheetKeptWhenPagingFails ==
    (prog = "unf" /\ unf_fetch.how \in {"raised", "errors"}) =>
        /\ unf_sheet = UnfOldSheet
        /\ unf_trace = <<>>

\* the seven result columns of a Price Watch row
PwResultCols ==
    {"CompetitorA_Title", "CompetitorA_Price", "Best_Offer_Source", "Best_Offer_Title",
     "Best_Offer_Price", "Status", "Last_Checked"}

\* the writes of the batch to cell (r, c)
PwWritesTo(r, c) ==
    {k \in 1..Len(pw_cell_updates) : pw_cell_updates[k].row = r /\ pw_cell_updates[k].col = c}

MultiPriced ==
    {c \in UNION {{fn_in[d][i] : i \in 1..Len(fn_in[d])} : d \in 1..Len(fn_in)} : ~IsNone(c.price)}

\* c is a priced candidate that none beats in confidence, nor in price at its confidence
MultiTop(c) ==
    /\ c \in MultiPriced
    /\ \A o \in MultiPriced : o.conf < c.conf \/ (o.conf = c.conf /\ o.price.n >= c.price.n)

\* C28: the offer process() selects for a row is a priced candidate of highest
\* confidence and, among those, of lowest price, there is none only when no
\* candidate yielded a price, and walking domains and candidates in the
\* opposite order gives the same confidence and price
C28_BestConfidenceThenPrice ==
    (prog = "multisel" /\ fn_pc = "done") =>
        /\ IF MultiPriced = {} THEN fn_out.best = NoMultiBest ELSE MultiTop(fn_out.best)
        /\ fn_out.reversed.conf = fn_out.best.conf
        /\ fn_out.reversed.price = fn_out.best.price

\* two domains, the first with the cheaper offer at lower confidence, the second
\* with two offers of the highest confidence: the cheaper of these is selected
C28_Witness ==
    /\ prog = "multisel" /\ fn_pc = "done"
    /\ Len(fn_in[1]) = 1 /\ fn_in[1][1].conf = 0 /\ fn_in[1][1].price = PyNum(39000)
    /\ Len(fn_in[2]) = 2 /\ fn_in[2][1].price = PyNum(42000) /\ fn_in[2][2].price = PyNum(40000)
    /\ fn_out.best.price = PyNum(40000) /\ fn_out.best.conf = 3
    /\ fn_out.best.domain = "www.excelsports.com"

\* no two query events of the trace carry the same query string
DistinctQueries(trace) ==
    LET qs == QueryEvents(trace)
    IN  \A i, j \in 1..Len(qs) : i # j => qs[i].q # qs[j].q

\* C29: while one row is resolved no query string goes to the search API
\* twice, also when MPN variants coincide
C29_NoRepeatedQueries ==
    /\ prog = "serp" => DistinctQueries(serp_trace)
    /\ prog = "web" => DistinctQueries(web_trace)

========================================================================
